---- MODULE Spec2Model ----
(***************************************************************************)
(* Model of the Klix coding assistant: the conversation window             *)
(* (MemoryManager), the tool registry entry points (ToolRegistry.execute,  *)
(* execute_tool_call) and the agent turn loop (AgentLoop._chat).           *)
(***************************************************************************)
EXTENDS Integers, Sequences, FiniteSets, TLC

(***************************************************************************)
(* Bounds of the model.                                                    *)
(***************************************************************************)
MaxAdds == 5            \* add_message calls explored by the window specification
MaxMaxMessages == 3     \* largest max_messages explored
MaxWindowSize == 2      \* largest sliding_window_size explored
MaxBlobLen == 4         \* longest arguments blob, in JSON tokens
MaxCalls == 2           \* calls of one entry point on the same input
MaxSessionIds == 4      \* a session starts no turn and no /init beyond this many messages
MaxStore == 2           \* most memories held by the mem0 store
MaxLimit == 2           \* largest limit / max_memories argument explored
MaxChatLen == 3         \* longest message list given to a model adapter
MaxChatRuns == 2        \* _chat calls explored by the indicator specification
MaxClients == 2         \* adapter instances built in one session
MaxInputs == 3          \* inputs read by the run loop in one session
MaxParts == 3           \* parts of a Gemini candidate, tool calls of an Ollama message
MaxEdits == 2           \* changes a caller makes to one list get_messages returned

(***************************************************************************)
(* Program constants.                                                      *)
(***************************************************************************)
DefaultMaxMessages == 50
DefaultSlidingWindowSize == 20

VARIABLES
    messages,             \* MemoryManager.messages
    max_messages,         \* MemoryManager.max_messages
    sliding_window_size,  \* MemoryManager.sliding_window_size
    total_tokens_used,    \* MemoryManager.total_tokens_used
    nextId,               \* identity of the next Message object created
    added,                \* history: every message passed to add_message
    clearedAt,            \* history: Len(added) at the last clear()
    call,                 \* tool entry point under test and its input
    results,              \* outcomes of the calls made on that input, in order
    pc,                   \* where the agent loop stands
    user_input,           \* _chat's user_input argument
    memory_auto_extract,  \* Config.memory_auto_extract
    is_enabled,           \* MemoryService.is_enabled
    extract_calls,        \* extract_and_store calls of the current turn
    tool_runs,            \* execute_tool_call calls of the current turn
    chat_raised,          \* whether the last _chat call raised
    extract_results,      \* outcomes of those extract_and_store calls
    turn,                 \* history: facts about the current turn
    step,                 \* history: the operation that ran last
    has_client,           \* MemoryService._client is not None
    memory_enabled,       \* Config.memory_enabled
    store,                \* the memories held by the mem0 store, oldest first
    svc,                  \* the MemoryService method called last, with its input
    svc_result,           \* what that call returned, or that it raised
    backend_calls,        \* the store calls made by the last service call or command
    command,              \* the text given to SlashCommandHandler.execute last
    rendered,             \* what the TUI rendered for that command, in order
    service_calls,        \* the MemoryService methods that command called, in order
    handled,              \* how execute ended on that text
    chat_messages,        \* the message list given to an adapter's chat
    own_instruction,      \* LLMClient._system_instruction
    sent,                 \* the adapter called last and the system instruction it used
    chat_at,              \* the await at which _chat stands
    call_result,          \* how the model call _chat awaits has ended
    tasks,                \* the indicator tasks created so far
    ready,                \* the event loop's queue of tasks to step
    timers,               \* the tasks inside asyncio.sleep, earliest deadline first
    is_thinking,          \* TUIState.is_thinking
    thinking_task,        \* _chat's thinking_task
    chat_runs,            \* history: the _chat calls begun
    config,               \* Config: provider, models and project root
    client,               \* AgentLoop.client, the adapter instance in use
    running,              \* AgentLoop.running
    run_at,               \* where AgentLoop.run stands
    model_calls,          \* history: the client.chat calls of the current turn
    context_log,          \* history: the queries given to get_memory_context
    dispatched,           \* the handler execute called last, with its argument
    last_input,           \* history: the input run handled last, and the state before it
    run_rendered,         \* what run itself rendered for that input
    rest_request,         \* what the REST chat handler was given in its latest request
    rest_sent,            \* the messages that handler gave to its follow-up call
    terminal_request,     \* what the latest turn of a fresh terminal loop was given
    terminal_sent,        \* the messages _chat gave to its follow-up call
    raw_response,         \* the provider response given to an adapter's _parse_response
    parsed,               \* the LLMResponse tool calls _parse_response made of it
    caller_list           \* the list get_messages returned, as its caller holds it

toolVars == <<call, results>>

loopVars == <<pc, user_input, memory_auto_extract, is_enabled, extract_calls,
              tool_runs, chat_raised, extract_results, turn, step>>

memoryVars == <<has_client, memory_enabled, store, svc, svc_result, backend_calls>>

commandVars == <<command, rendered, service_calls, handled>>

clientVars == <<chat_messages, own_instruction, sent>>

thinkingVars == <<chat_at, call_result, tasks, ready, timers, is_thinking,
                  thinking_task, chat_runs>>

runVars == <<config, client, running, run_at, model_calls, context_log, dispatched,
             last_input, run_rendered>>

restVars == <<rest_request, rest_sent, terminal_request, terminal_sent>>

parseVars == <<raw_response, parsed>>

callerVars == <<caller_list>>

windowVars == <<messages, max_messages, sliding_window_size, total_tokens_used,
                nextId, added, clearedAt>>

Roles == {"system", "user", "assistant", "tool"}

\* A text is the tuple of its parts; the empty text has none.
EmptyText == <<>>
Text(part) == <<part>>

\* Python's None, where a text is optional.
None == <<>>

\* llm_client.Message; id stands for the identity of the Python object.
Message(id, role, content, tool_calls, tool_call_id, name) ==
    [id |-> id, role |-> role, content |-> content, tool_calls |-> tool_calls,
     tool_call_id |-> tool_call_id, name |-> name]

IsSystem(m) == m.role = "system"
NotSystem(m) == m.role # "system"

Min(a, b) == IF a < b THEN a ELSE b

\* Python's s[-n:] for n >= 0: the last n elements, and the whole list for
\* n = 0 because -0 is 0.
SliceLast(s, n) ==
    IF n = 0 THEN s ELSE SubSeq(s, Len(s) - Min(n, Len(s)) + 1, Len(s))

\* A slip: the window is taken from the front of the list.
SliceFirst(s, n) ==
    IF n = 0 THEN s ELSE SubSeq(s, 1, Min(n, Len(s)))

\* MemoryManager._apply_sliding_window, the `recent` list.
Recent(non_system, n) == SliceLast(non_system, n)

\* A slip: the system messages are not set apart before the window is cut.
SlidingWindowOverAll(ms, n) == SliceLast(ms, n)

\* MemoryManager._apply_sliding_window.
ApplySlidingWindow(ms, n) ==
    SelectSeq(ms, IsSystem) \o Recent(SelectSeq(ms, NotSystem), n)

\* A slip: eviction starts when the maximum is reached, not when it is passed.
AddMessageEvictingAtMax(ms, m, maxm, n) ==
    LET appended == Append(ms, m)
    IN  IF Len(appended) >= maxm THEN ApplySlidingWindow(appended, n) ELSE appended

\* MemoryManager.add_message: the new value of messages.
AddMessageTo(ms, m, maxm, n) ==
    LET appended == Append(ms, m)
    IN  IF Len(appended) > maxm THEN ApplySlidingWindow(appended, n) ELSE appended

\* A slip: clear keeps the first system message only.
ClearedToFirstSystem(ms) ==
    LET systems == SelectSeq(ms, IsSystem)
    IN  IF systems = <<>> THEN <<>> ELSE <<systems[1]>>

\* MemoryManager.clear: the new value of messages.
ClearedMessages(ms) == SelectSeq(ms, IsSystem)

(***************************************************************************)
(* Tool registry: ToolRegistry.execute and execute_tool_call.              *)
(*                                                                         *)
(* The outcome of a call is a record: raised tells whether an exception    *)
(* left the call, exc names it, text is the returned text and invoked      *)
(* lists the tool callables whose body ran.                                *)
(***************************************************************************)
Returned(text, invoked) ==
    [raised |-> FALSE, exc |-> "", text |-> text, invoked |-> invoked]

Raised(exc, invoked) ==
    [raised |-> TRUE, exc |-> exc, text |-> EmptyText, invoked |-> invoked]

\* The registered tools used here, with the parameters of their callables:
\* list_files(path=".", show_hidden=False) and
\* read_file(filepath, start_line=None, end_line=None).
Tools ==
    [ls        |-> [required |-> {}, optional |-> {"path", "show_hidden"}],
     read_file |-> [required |-> {"filepath"},
                    optional |-> {"start_line", "end_line"}]]

\* Parameters of ToolRegistry.execute(self, name, **kwargs) that a keyword
\* argument of the same name collides with.
ExecuteParams == {"self", "name"}

\* What the body of a registered callable may do once its arguments bind.
CallableOutcomes == {"returns", "raises"}

\* Tool.execute: self.function(**kwargs).  Binding the keywords to the
\* callable's parameters raises TypeError before the body runs.
ToolExecute(name, keys, outcome) ==
    LET t == Tools[name]
    IN  IF ~(t.required \subseteq keys /\ keys \subseteq (t.required \cup t.optional))
        THEN Raised("TypeError", <<>>)
        ELSE IF outcome = "raises"
             THEN Raised("Exception", <<name>>)
             ELSE Returned(<<"output of ", name>>, <<name>>)

\* A slip: the exception of the callable is not caught.
RegistryExecuteNoCatch(name, keys, outcome) ==
    IF keys \cap ExecuteParams # {}
    THEN Raised("TypeError", <<>>)
    ELSE IF name \notin DOMAIN Tools
         THEN Returned(<<"Error: Tool '", name, "' not found.">>, <<>>)
         ELSE ToolExecute(name, keys, outcome)

\* ToolRegistry.execute(name, **kwargs), called with the keywords `keys`.
RegistryExecute(name, keys, outcome) ==
    IF keys \cap ExecuteParams # {}
    THEN Raised("TypeError", <<>>)   \* multiple values for argument 'name'
    ELSE IF name \notin DOMAIN Tools
         THEN Returned(<<"Error: Tool '", name, "' not found.">>, <<>>)
         ELSE LET r == ToolExecute(name, keys, outcome)
              IN  IF r.raised
                  THEN Returned(<<"Error executing '", name, "': ", r.exc>>, r.invoked)
                  ELSE r

(***************************************************************************)
(* json.loads on a blob, given as its sequence of JSON tokens.             *)
(***************************************************************************)
JsonStrings == {"\"name\"", "\"path\""}
JsonTokens == {"{", "}", "[", "]", ":", ",", "null", "1"} \cup JsonStrings

\* The Python string a JSON string token decodes to.
Unquote(tok) == IF tok = "\"name\"" THEN "name" ELSE "path"

NoParse == [ok |-> FALSE, pos |-> 0, val |-> [kind |-> "none"]]
Parsed(pos, val) == [ok |-> TRUE, pos |-> pos, val |-> val]
TokAt(t, i) == IF i <= Len(t) THEN t[i] ELSE "<end>"

RECURSIVE ParseValue(_, _), ParseElements(_, _), ParseMembers(_, _, _)

\* One JSON value starting at token i.
ParseValue(t, i) ==
    LET tok == TokAt(t, i)
    IN  CASE tok = "null" -> Parsed(i + 1, [kind |-> "NoneType"])
          [] tok = "1" -> Parsed(i + 1, [kind |-> "int"])
          [] tok \in JsonStrings -> Parsed(i + 1, [kind |-> "str", text |-> <<Unquote(tok)>>])
          [] tok = "[" -> IF TokAt(t, i + 1) = "]"
                          THEN Parsed(i + 2, [kind |-> "list"])
                          ELSE ParseElements(t, i + 1)
          [] tok = "{" -> IF TokAt(t, i + 1) = "}"
                          THEN Parsed(i + 2, [kind |-> "dict", keys |-> {}])
                          ELSE ParseMembers(t, i + 1, {})
          [] OTHER -> NoParse

\* The elements of a non-empty array, from token i to the closing bracket.
ParseElements(t, i) ==
    LET v == ParseValue(t, i)
    IN  IF ~v.ok THEN NoParse
        ELSE CASE TokAt(t, v.pos) = "," -> ParseElements(t, v.pos + 1)
               [] TokAt(t, v.pos) = "]" -> Parsed(v.pos + 1, [kind |-> "list"])
               [] OTHER -> NoParse

\* The members of a non-empty object, from token i to the closing brace.
ParseMembers(t, i, keys) ==
    IF ~(TokAt(t, i) \in JsonStrings /\ TokAt(t, i + 1) = ":") THEN NoParse
    ELSE LET v == ParseValue(t, i + 2)
             ks == keys \cup {Unquote(t[i])}
         IN  IF ~v.ok THEN NoParse
             ELSE CASE TokAt(t, v.pos) = "," -> ParseMembers(t, v.pos + 1, ks)
                    [] TokAt(t, v.pos) = "}" ->
                           Parsed(v.pos + 1, [kind |-> "dict", keys |-> ks])
                    [] OTHER -> NoParse

\* json.loads: ok is FALSE where it raises JSONDecodeError.
JsonLoads(t) ==
    LET v == ParseValue(t, 1)
    IN  IF v.ok /\ v.pos = Len(t) + 1 THEN v ELSE NoParse

\* dict.get(key, default)
Get(d, key, default) == IF key \in DOMAIN d THEN d[key] ELSE default

EmptyDict == [kind |-> "dict", keys |-> {}]

\* A slip: the JSONDecodeError of a malformed blob is not caught.
ExecuteToolCallNoCatch(tool_call, outcome) ==
    LET name == Get(tool_call, "name", "")
        arguments == Get(tool_call, "arguments", EmptyDict)
        decoded == IF arguments.kind = "str" THEN JsonLoads(arguments.text)
                   ELSE Parsed(0, arguments)
    IN  IF ~decoded.ok
        THEN Raised("JSONDecodeError", <<>>)
        ELSE IF decoded.val.kind # "dict"
             THEN Raised("TypeError", <<>>)
             ELSE RegistryExecute(name, decoded.val.keys, outcome)

\* execute_tool_call(tool_call)
ExecuteToolCall(tool_call, outcome) ==
    LET name == Get(tool_call, "name", "")
        arguments == Get(tool_call, "arguments", EmptyDict)
        decoded == IF arguments.kind = "str" THEN JsonLoads(arguments.text)
                   ELSE Parsed(0, arguments)
    IN  IF ~decoded.ok
        THEN Returned(<<"Error: Invalid JSON arguments for tool '", name, "'">>, <<>>)
        ELSE IF decoded.val.kind # "dict"
             THEN Raised("TypeError", <<>>)   \* argument after ** must be a mapping
             ELSE RegistryExecute(name, decoded.val.keys, outcome)

(***************************************************************************)
(* The tool entry points on their own: an input is drawn, then the entry   *)
(* point is called on it up to MaxCalls times.                             *)
(***************************************************************************)
ToolNames == {"ls", "read_file", "nope"}
ArgKeys == {"name", "self", "path", "filepath"}

RECURSIVE SeqsUpTo(_, _)
SeqsUpTo(S, n) ==
    IF n = 0 THEN {<<>>}
    ELSE LET shorter == SeqsUpTo(S, n - 1)
         IN  shorter \cup {Append(s, x) : s \in {q \in shorter : Len(q) = n - 1}, x \in S}

Blobs == {[kind |-> "str", text |-> t] : t \in SeqsUpTo(JsonTokens, MaxBlobLen)}
Mappings == {[kind |-> "dict", keys |-> ks] : ks \in SUBSET ArgKeys}

\* Tool-call records: with or without a name, arguments a mapping or a blob.
ToolCallRecords ==
    {[name |-> n, arguments |-> a] : n \in ToolNames, a \in Mappings}
    \cup {[arguments |-> a] : a \in Mappings}
    \cup {[name |-> "ls"]}
    \cup {[name |-> n, arguments |-> a] : n \in {"ls", "nope"}, a \in Blobs}

NoCall == [fn |-> "none"]

ToolInit ==
    /\ \/ \E n \in ToolNames \cup {""}, ks \in SUBSET ArgKeys :
              call = [fn |-> "execute", name |-> n, keys |-> ks]
       \/ \E tc \in ToolCallRecords :
              call = [fn |-> "execute_tool_call", tool_call |-> tc]
    /\ results = <<>>

CallExecute ==
    /\ call.fn = "execute"
    /\ Len(results) < MaxCalls
    /\ \E o \in CallableOutcomes :
           results' = Append(results, RegistryExecute(call.name, call.keys, o))
    /\ UNCHANGED call

CallExecuteToolCall ==
    /\ call.fn = "execute_tool_call"
    /\ Len(results) < MaxCalls
    /\ \E o \in CallableOutcomes :
           results' = Append(results, ExecuteToolCall(call.tool_call, o))
    /\ UNCHANGED call

(***************************************************************************)
(* The model adapters: what GeminiClient.chat and OllamaClient.chat use as *)
(* the system instruction of a message list.                               *)
(***************************************************************************)
DefaultSystemInstruction == Text("You are Klix")

\* LLMClient.system_instruction.
SystemInstruction(own) == IF own # EmptyText THEN own ELSE DefaultSystemInstruction

\* The loop shared by the two adapters: system_content starts as the
\* client's instruction and takes the content of a system-role message, the
\* loop breaking at the first one.
RECURSIVE SystemContent(_, _)
SystemContent(msgs, own) ==
    IF msgs = <<>> THEN SystemInstruction(own)
    ELSE IF Head(msgs).role = "system" THEN Head(msgs).content
    ELSE SystemContent(Tail(msgs), own)

\* GeminiClient.chat: the system_instruction of the generation config.
GeminiSystemInstruction(msgs, own) == <<SystemContent(msgs, own)>>

\* OllamaClient._convert_messages_to_ollama: the system message put first,
\* none when the content is empty.
OllamaSystemMessages(msgs, own) ==
    IF SystemContent(msgs, own) # EmptyText
    THEN <<SystemContent(msgs, own)>> ELSE <<>>

ChatRoles == {"system", "user"}
ChatContents == {EmptyText, Text("first"), Text("second")}

\* The message lists given to chat.
RECURSIVE ChatListsOfLen(_)
ChatListsOfLen(n) ==
    IF n = 0 THEN {<<>>}
    ELSE {Append(l, Message(n, role, content, <<>>, None, "")) :
              l \in ChatListsOfLen(n - 1), role \in ChatRoles, content \in ChatContents}
ChatLists == UNION {ChatListsOfLen(n) : n \in 0..MaxChatLen}

NothingSent == [client |-> "none", system |-> <<>>]

ClientInit ==
    /\ chat_messages \in ChatLists
    /\ own_instruction \in {EmptyText, Text("custom")}
    /\ sent = NothingSent

ClientIdle ==
    /\ chat_messages = <<>>
    /\ own_instruction = EmptyText
    /\ sent = NothingSent

GeminiChat ==
    /\ sent' = [client |-> "gemini",
                system |-> GeminiSystemInstruction(chat_messages, own_instruction)]
    /\ UNCHANGED <<chat_messages, own_instruction>>

OllamaChat ==
    /\ sent' = [client |-> "ollama",
                system |-> OllamaSystemMessages(chat_messages, own_instruction)]
    /\ UNCHANGED <<chat_messages, own_instruction>>

(***************************************************************************)
(* The thinking indicator: _chat and the show_thinking tasks it creates,   *)
(* run by the asyncio event loop.                                          *)
(*                                                                         *)
(* Task 0 is the task running _chat, task k >= 1 is the k-th indicator     *)
(* task.  `ready` is the loop's queue of tasks to step, stepped first in   *)
(* first out; `timers` holds the tasks inside asyncio.sleep(0.1), in the   *)
(* order of their deadlines: every sleep of the program lasts 0.1 s, so    *)
(* the deadlines come in the order the sleeps began.  The model call runs  *)
(* in a thread and may end at any moment.                                  *)
(***************************************************************************)
ChatTask == 0
NoTask == 0

\* asyncio.sleep(0.1) begun by task t.
WithTimerAhead(q, t) == <<t>> \o q
WithTimer(q, t) == Append(q, t)

Without(q, t) == SelectSeq(q, LAMBDA x : x # t)
Done(t) == tasks[t].state = "done"
Running == {t \in 1..Len(tasks) : ~Done(t)}

\* How a model call may end, and what _chat then does with the response.
CallResults == {"tool calls", "tool call raises", "final", "raises"}

\* asyncio.create_task(self.tui.show_thinking(..)) after is_thinking = True.
StartThinking ==
    /\ is_thinking' = TRUE
    /\ tasks' = Append(tasks, [state |-> "created", must_cancel |-> FALSE])
    /\ thinking_task' = Len(tasks) + 1

\* The except and finally blocks of _chat: stop_thinking, then the task in
\* thinking_task is cancelled and awaited unless it is done; `rdy` is the
\* ready queue without the task running _chat.
Finally(rdy) ==
    /\ is_thinking' = FALSE
    /\ call_result' = "none"
    /\ thinking_task' = thinking_task
    /\ IF thinking_task # NoTask /\ ~Done(thinking_task)
       THEN /\ tasks' = [tasks EXCEPT ![thinking_task].must_cancel = TRUE]
            /\ timers' = Without(timers, thinking_task)
            /\ ready' = IF tasks[thinking_task].state = "sleeping"
                        THEN Append(rdy, thinking_task) ELSE rdy
            /\ chat_at' = "AwaitCancel"
       ELSE /\ chat_at' = "Idle"
            /\ UNCHANGED <<tasks, timers>>
            /\ ready' = rdy

\* _chat from its start to its first await: the model call suspends, or it
\* raises before it does.
ChatBegins ==
    /\ chat_at = "Idle"
    /\ chat_runs < MaxChatRuns
    /\ chat_runs' = chat_runs + 1
    /\ \/ /\ StartThinking
          /\ ready' = Append(ready, Len(tasks) + 1)
          /\ chat_at' = "AwaitFirst"
          /\ UNCHANGED <<timers, call_result>>
       \/ \* the except and finally blocks, on the task just created
          /\ is_thinking' = FALSE
          /\ tasks' = Append(tasks, [state |-> "created", must_cancel |-> TRUE])
          /\ thinking_task' = Len(tasks) + 1
          /\ ready' = Append(ready, Len(tasks) + 1)
          /\ chat_at' = "AwaitCancel"
          /\ UNCHANGED <<timers, call_result>>

\* The thread of the model call ends: the task running _chat is made ready.
ModelCallEnds(result) ==
    /\ chat_at \in {"AwaitFirst", "AwaitFollowup"}
    /\ call_result = "none"
    /\ chat_at = "AwaitFollowup" => result \in {"final", "raises"}
    /\ call_result' = result
    /\ ready' = Append(ready, ChatTask)
    /\ UNCHANGED <<chat_at, tasks, timers, is_thinking, thinking_task, chat_runs>>

\* The earliest deadline passes: the sleeping task is made ready.
TimerFires ==
    /\ timers # <<>>
    /\ timers' = Tail(timers)
    /\ ready' = Append(ready, Head(timers))
    /\ tasks' = IF Head(timers) = ChatTask THEN tasks
                ELSE [tasks EXCEPT ![Head(timers)].state = "woken"]
    /\ UNCHANGED <<chat_at, call_result, is_thinking, thinking_task, chat_runs>>

\* The loop steps an indicator task: show_thinking up to its next await.
StepIndicator ==
    /\ ready # <<>>
    /\ Head(ready) # ChatTask
    /\ LET t == Head(ready)
       IN  IF tasks[t].must_cancel
           THEN \* CancelledError is thrown into the task
                /\ tasks' = [tasks EXCEPT ![t].state = "done"]
                /\ ready' = IF chat_at = "AwaitCancel" /\ thinking_task = t
                            THEN Append(Tail(ready), ChatTask) ELSE Tail(ready)
                /\ UNCHANGED <<timers, is_thinking>>
           ELSE IF tasks[t].state = "created"
           THEN /\ is_thinking' = TRUE
                /\ tasks' = [tasks EXCEPT ![t].state = "sleeping"]
                /\ timers' = WithTimer(timers, t)
                /\ ready' = Tail(ready)
           ELSE IF is_thinking
           THEN /\ tasks' = [tasks EXCEPT ![t].state = "sleeping"]
                /\ timers' = WithTimer(timers, t)
                /\ ready' = Tail(ready)
                /\ UNCHANGED is_thinking
           ELSE /\ tasks' = [tasks EXCEPT ![t].state = "done"]
                /\ ready' = Tail(ready)
                /\ UNCHANGED <<timers, is_thinking>>
    /\ UNCHANGED <<chat_at, call_result, thinking_task, chat_runs>>

\* The loop steps the task running _chat: _chat up to its next await or to
\* its return.
StepChat ==
    /\ ready # <<>>
    /\ Head(ready) = ChatTask
    /\ CASE chat_at \in {"AwaitFirst", "AwaitFollowup"} /\ call_result # "raises" ->
                \* stop_thinking, then asyncio.sleep(0.1)
                /\ is_thinking' = FALSE
                /\ timers' = WithTimer(timers, ChatTask)
                /\ ready' = Tail(ready)
                /\ chat_at' = IF chat_at = "AwaitFirst" THEN "SleepFirst"
                              ELSE "SleepFollowup"
                /\ UNCHANGED <<tasks, thinking_task, call_result>>
         [] chat_at \in {"AwaitFirst", "AwaitFollowup"} /\ call_result = "raises" ->
                Finally(Tail(ready))
         [] chat_at = "SleepFirst" /\ call_result = "tool calls" ->
                \* the tools ran; the follow-up call suspends, or raises
                \* before it does
                \/ /\ StartThinking
                   /\ call_result' = "none"
                   /\ UNCHANGED timers
                   /\ ready' = Append(Tail(ready), Len(tasks) + 1)
                   /\ chat_at' = "AwaitFollowup"
                \/ /\ is_thinking' = FALSE
                   /\ tasks' = Append(tasks, [state |-> "created", must_cancel |-> TRUE])
                   /\ thinking_task' = Len(tasks) + 1
                   /\ call_result' = "none"
                   /\ UNCHANGED timers
                   /\ ready' = Append(Tail(ready), Len(tasks) + 1)
                   /\ chat_at' = "AwaitCancel"
         [] chat_at = "SleepFirst" /\ call_result # "tool calls" ->
                Finally(Tail(ready))
         [] chat_at \in {"SleepFollowup", "AwaitCancel"} ->
                IF chat_at = "AwaitCancel"
                THEN /\ chat_at' = "Idle"
                     /\ ready' = Tail(ready)
                     /\ UNCHANGED <<tasks, timers, is_thinking, thinking_task,
                                    call_result>>
                ELSE Finally(Tail(ready))
    /\ UNCHANGED chat_runs

ThinkingInit ==
    /\ chat_at = "Idle"
    /\ call_result = "none"
    /\ tasks = <<>>
    /\ ready = <<>>
    /\ timers = <<>>
    /\ is_thinking = FALSE
    /\ thinking_task = NoTask
    /\ chat_runs = 0

(***************************************************************************)
(* The memory service: mem_0.MemoryService over the mem0 store.            *)
(*                                                                         *)
(* The store is outside the program: each call to it either raises or      *)
(* returns, and which of the two is an input of the call.  A service call  *)
(* yields a record: raised tells whether an exception left the method,     *)
(* value is what it returned, calls are the store calls it made, in order, *)
(* and store is the content of the store after it.                         *)
(***************************************************************************)
MemoryTypes == {"episodic", "semantic", "procedural"}
MemoryIds == {<<"a", "b">>, <<"a", "c">>, <<"b", "a">>}

\* The dicts a stored item may carry as metadata: none, a known type, a type
\* that is not a MemoryType.
NoMetadata == [k \in {} |-> ""]
Metadatas == {NoMetadata, [type |-> "semantic"], [type |-> "other"]}

\* The items of the store, as the mem0 API returns them.
Items == {[id |-> i, memory |-> <<"fact ">> \o i, metadata |-> md] :
              i \in MemoryIds, md \in Metadatas}

\* The contents the store may have: up to MaxStore items with distinct ids.
RECURSIVE StoresOfLen(_)
StoresOfLen(n) ==
    IF n = 0 THEN {<<>>}
    ELSE {Append(s, it) : s \in StoresOfLen(n - 1), it \in Items}
DistinctIds(s) == \A i, j \in 1..Len(s) : s[i].id = s[j].id => i = j
Stores == UNION {{s \in StoresOfLen(n) : DistinctIds(s)} : n \in 0..MaxStore}

Limits == 0..MaxLimit

IsEnabled == has_client /\ memory_enabled

\* Memory.from_mem0.
FromMem0(data) ==
    LET metadata == Get(data, "metadata", NoMetadata)
        memory_type ==
            IF DOMAIN metadata # {} /\ Get(metadata, "type", "") \in MemoryTypes
            THEN metadata.type ELSE "episodic"
    IN  [id |-> Get(data, "id", <<>>), content |-> Get(data, "memory", EmptyText),
         memory_type |-> memory_type]

Memories(items) == [i \in 1..Len(items) |-> FromMem0(items[i])]

\* Python's s[:n]: the first n elements, all but the last -n for n < 0.
SliceTo(s, n) ==
    IF n >= 0 THEN SubSeq(s, 1, Min(n, Len(s))) ELSE SubSeq(s, 1, Len(s) + n)

StoreCall(op, raised, returned) ==
    [op |-> op, raised |-> raised, returned |-> returned]

ServiceReturns(value, calls, st) ==
    [raised |-> FALSE, value |-> value, calls |-> calls, store |-> st]
ServiceRaises(calls, st) ==
    [raised |-> TRUE, value |-> <<>>, calls |-> calls, store |-> st]

\* What the store answers to a search: up to `limit` of its items, in order.
RECURSIVE SubSeqsOf(_)
SubSeqsOf(s) ==
    IF s = <<>> THEN {<<>>}
    ELSE LET rest == SubSeqsOf(Tail(s))
         IN  rest \cup {<<Head(s)>> \o t : t \in rest}
SearchHits(limit) == {h \in SubSeqsOf(store) : Len(h) <= limit}

\* A slip: search lets the exception of the store out.
SearchNoCatch(query, limit, raises, hits) ==
    IF ~IsEnabled THEN ServiceReturns(<<>>, <<>>, store)
    ELSE IF raises
         THEN ServiceRaises(<<StoreCall("search", TRUE, <<>>)>>, store)
         ELSE ServiceReturns(Memories(hits),
                             <<StoreCall("search", FALSE, hits)>>, store)

\* MemoryService.search.
Search(query, limit, raises, hits) ==
    IF ~IsEnabled THEN ServiceReturns(<<>>, <<>>, store)
    ELSE IF raises
         THEN ServiceReturns(<<>>, <<StoreCall("search", TRUE, <<>>)>>, store)
         ELSE ServiceReturns(Memories(hits),
                             <<StoreCall("search", FALSE, hits)>>, store)

\* MemoryService.get_all.
GetAll(limit, raises) ==
    IF ~IsEnabled THEN ServiceReturns(<<>>, <<>>, store)
    ELSE IF raises
         THEN ServiceReturns(<<>>, <<StoreCall("get_all", TRUE, <<>>)>>, store)
         ELSE ServiceReturns(Memories(SliceTo(store, limit)),
                             <<StoreCall("get_all", FALSE, store)>>, store)

\* The store after a successful add: one more item, under an id `new` it
\* did not hold, of the type given in the metadata.
StoreAdding(new, memory_type) ==
    Append(store, [id |-> new, memory |-> <<"fact ">> \o new,
                   metadata |-> [type |-> memory_type]])
FreeIds == {i \in MemoryIds : \A k \in 1..Len(store) : store[k].id # i}

\* MemoryService.add.
Add(msgs, memory_type, raises, new) ==
    IF ~IsEnabled THEN ServiceReturns(FALSE, <<>>, store)
    ELSE IF raises
         THEN ServiceReturns(FALSE, <<StoreCall("add", TRUE, <<>>)>>, store)
         ELSE ServiceReturns(TRUE, <<StoreCall("add", FALSE, <<>>)>>,
                             StoreAdding(new, memory_type))

\* MemoryService.add_text.
AddText(text, memory_type, raises, new) ==
    IF ~IsEnabled THEN ServiceReturns(FALSE, <<>>, store)
    ELSE IF raises
         THEN ServiceReturns(FALSE, <<StoreCall("add", TRUE, <<>>)>>, store)
         ELSE ServiceReturns(TRUE, <<StoreCall("add", FALSE, <<>>)>>,
                             StoreAdding(new, memory_type))

\* MemoryService.delete.
Delete(memory_id, raises) ==
    IF ~IsEnabled THEN ServiceReturns(FALSE, <<>>, store)
    ELSE IF raises
         THEN ServiceReturns(FALSE, <<StoreCall("delete", TRUE, <<>>)>>, store)
         ELSE ServiceReturns(TRUE, <<StoreCall("delete", FALSE, <<>>)>>,
                             SelectSeq(store, LAMBDA it : it.id # memory_id))

\* A slip: delete_all goes to the store without asking is_enabled.
DeleteAllUnguarded(raises) ==
    IF raises
    THEN ServiceReturns(FALSE, <<StoreCall("delete_all", TRUE, <<>>)>>, store)
    ELSE ServiceReturns(TRUE, <<StoreCall("delete_all", FALSE, <<>>)>>, <<>>)

\* MemoryService.delete_all.
DeleteAll(raises) ==
    IF ~IsEnabled THEN ServiceReturns(FALSE, <<>>, store)
    ELSE IF raises
         THEN ServiceReturns(FALSE, <<StoreCall("delete_all", TRUE, <<>>)>>, store)
         ELSE ServiceReturns(TRUE, <<StoreCall("delete_all", FALSE, <<>>)>>, <<>>)

\* The type_icon of get_memory_context.
TypeIcon(memory_type) ==
    CASE memory_type = "episodic" -> "calendar"
      [] memory_type = "semantic" -> "bulb"
      [] memory_type = "procedural" -> "gear"
      [] OTHER -> "bullet"

\* Python's "\n".join(lines).
RECURSIVE JoinLines(_)
JoinLines(lines) ==
    IF lines = <<>> THEN EmptyText
    ELSE IF Len(lines) = 1 THEN lines[1]
    ELSE lines[1] \o <<"\n">> \o JoinLines(Tail(lines))

MemoryLine(mem) == <<TypeIcon(mem.memory_type), " ">> \o mem.content

\* A slip: get_memory_context without the fallback to get_all.
GetMemoryContextSearchOnly(query, max_memories, raises, hits, all_raises) ==
    IF ~IsEnabled THEN ServiceReturns(EmptyText, <<>>, store)
    ELSE LET found == Search(query, max_memories, raises, hits)
         IN  IF found.value = <<>>
             THEN ServiceReturns(EmptyText, found.calls, store)
             ELSE ServiceReturns(
                      JoinLines([i \in 1..Len(found.value) |->
                                    MemoryLine(found.value[i])]),
                      found.calls, store)

\* MemoryService.get_memory_context.
GetMemoryContext(query, max_memories, raises, hits, all_raises) ==
    IF ~IsEnabled THEN ServiceReturns(EmptyText, <<>>, store)
    ELSE LET found == Search(query, max_memories, raises, hits)
             recent == GetAll(max_memories, all_raises)
             memories == IF found.value = <<>> THEN recent.value ELSE found.value
             calls == IF found.value = <<>> THEN found.calls \o recent.calls
                      ELSE found.calls
         IN  IF memories = <<>>
             THEN ServiceReturns(EmptyText, calls, store)
             ELSE ServiceReturns(
                      JoinLines([i \in 1..Len(memories) |-> MemoryLine(memories[i])]),
                      calls, store)

\* MemoryService.extract_and_store.
ExtractAndStore(u, assistant_response, raises, new) ==
    IF ~IsEnabled THEN ServiceReturns(FALSE, <<>>, store)
    ELSE Add(<<[role |-> "user", content |-> u],
               [role |-> "assistant", content |-> assistant_response]>>,
             "episodic", raises, new)

Texts == {EmptyText, Text("likes tea")}
Queries == {Text("tea")}
NoServiceCall == [fn |-> "none"]
NoServiceResult == [raised |-> FALSE, value |-> <<>>]

\* A MemoryService built from a Config, over a store with some content.
MemoryInit ==
    /\ has_client \in BOOLEAN
    /\ memory_enabled \in BOOLEAN
    /\ store \in Stores
    /\ svc = NoServiceCall
    /\ svc_result = NoServiceResult
    /\ backend_calls = <<>>

\* The service of a specification that makes no call to it.
MemoryIdle ==
    /\ has_client = FALSE
    /\ memory_enabled = TRUE
    /\ store = <<>>
    /\ svc = NoServiceCall
    /\ svc_result = NoServiceResult
    /\ backend_calls = <<>>

\* The state after service call c returned or raised as r tells.
Serviced(c, r) ==
    /\ svc' = c
    /\ svc_result' = [raised |-> r.raised, value |-> r.value]
    /\ backend_calls' = r.calls
    /\ store' = r.store
    /\ UNCHANGED <<has_client, memory_enabled>>
    /\ UNCHANGED <<windowVars, toolVars, loopVars, commandVars, clientVars, thinkingVars, runVars, restVars, parseVars, callerVars>>

CallSearch ==
    \E query \in Queries, limit \in Limits, raises \in BOOLEAN :
        \E hits \in SearchHits(limit) :
            Serviced([fn |-> "search", limit |-> limit],
                     Search(query, limit, raises, hits))

CallGetAll ==
    \E limit \in Limits, raises \in BOOLEAN :
        Serviced([fn |-> "get_all", limit |-> limit], GetAll(limit, raises))

CallAdd ==
    /\ Len(store) < MaxStore
    /\ \E raises \in BOOLEAN, new \in FreeIds, memory_type \in MemoryTypes :
           Serviced([fn |-> "add"], Add(<<>>, memory_type, raises, new))

CallAddText ==
    /\ Len(store) < MaxStore
    /\ \E text \in Texts, raises \in BOOLEAN, new \in FreeIds :
           Serviced([fn |-> "add_text"], AddText(text, "semantic", raises, new))

CallDelete ==
    \E memory_id \in MemoryIds, raises \in BOOLEAN :
        Serviced([fn |-> "delete", memory_id |-> memory_id],
                 Delete(memory_id, raises))

CallDeleteAll ==
    \E raises \in BOOLEAN :
        Serviced([fn |-> "delete_all"], DeleteAll(raises))

CallGetMemoryContext ==
    \E query \in Queries, max_memories \in Limits,
       raises \in BOOLEAN, all_raises \in BOOLEAN :
        \E hits \in SearchHits(max_memories) :
            Serviced([fn |-> "get_memory_context", max_memories |-> max_memories],
                     GetMemoryContext(query, max_memories, raises, hits, all_raises))

CallExtractAndStore ==
    /\ Len(store) < MaxStore
    /\ \E u \in Texts, raises \in BOOLEAN, new \in FreeIds :
           Serviced([fn |-> "extract_and_store"],
                    ExtractAndStore(u, Text("answer"), raises, new))

NoCommand == <<>>
CommandIdle ==
    /\ command = NoCommand
    /\ rendered = <<>>
    /\ service_calls = <<>>
    /\ handled = "none"

(***************************************************************************)
(* The command dispatcher: SlashCommandHandler.execute and the handlers of *)
(* the memory commands.  A text is here the tuple of its characters.       *)
(***************************************************************************)
ForgetName == <<"f", "o", "r", "g", "e", "t">>
MemoryName == <<"m", "e", "m", "o", "r", "y">>
RememberName == <<"r", "e", "m", "e", "m", "b", "e", "r">>
AllArg == <<"a", "l", "l">>
ConfirmWord == <<"c", "o", "n", "f", "i", "r", "m">>
AllConfirmArg == AllArg \o <<" ">> \o ConfirmWord
SearchPrefix == <<"s", "e", "a", "r", "c", "h", " ">>

\* str.lower, on the capitals that occur in the texts explored.
LowerChar(c) ==
    CASE c = "F" -> "f"
      [] c = "A" -> "a"
      [] c = "C" -> "c"
      [] c = "L" -> "l"
      [] c = "E" -> "e"
      [] c = "R" -> "r"
      [] c = "O" -> "o"
      [] c = "N" -> "n"
      [] c = "I" -> "i"
      [] c = "G" -> "g"
      [] OTHER -> c
Lower(s) == [i \in 1..Len(s) |-> LowerChar(s[i])]

\* str.strip(chars): leading and trailing characters of the set removed.
RECURSIVE LStripChars(_, _)
LStripChars(s, chars) ==
    IF s # <<>> /\ Head(s) \in chars THEN LStripChars(Tail(s), chars) ELSE s
RECURSIVE RStripChars(_, _)
RStripChars(s, chars) ==
    IF s # <<>> /\ s[Len(s)] \in chars
    THEN RStripChars(SubSeq(s, 1, Len(s) - 1), chars) ELSE s
StripChars(s, chars) == RStripChars(LStripChars(s, chars), chars)
Strip(s) == StripChars(s, {" "})

\* str.startswith.
StartsWith(s, prefix) ==
    Len(prefix) <= Len(s) /\ SubSeq(s, 1, Len(prefix)) = prefix

\* A slip: the text is split at every run of spaces and the first two words
\* are kept.
SplitOnceAtEverySpace(s) ==
    LET t == LStripChars(s, {" "})
        spaces == {k \in 1..Len(t) : t[k] = " "}
        k == IF spaces = {} THEN Len(t) + 1
             ELSE CHOOSE i \in spaces : \A j \in spaces : i <= j
        rest == LStripChars(SubSeq(t, k, Len(t)), {" "})
        ends == {i \in 1..Len(rest) : rest[i] = " "}
        e == IF ends = {} THEN Len(rest) + 1
             ELSE CHOOSE i \in ends : \A j \in ends : i <= j
    IN  IF t = <<>> THEN <<>>
        ELSE IF rest = <<>> THEN <<SubSeq(t, 1, k - 1)>>
        ELSE <<SubSeq(t, 1, k - 1), SubSeq(rest, 1, e - 1)>>

\* str.split(maxsplit=1): no part for a blank text, else the first word and,
\* when something follows it, the rest of the text as one part.
SplitOnce(s) ==
    LET t == LStripChars(s, {" "})
        spaces == {k \in 1..Len(t) : t[k] = " "}
        k == IF spaces = {} THEN Len(t) + 1
             ELSE CHOOSE i \in spaces : \A j \in spaces : i <= j
        rest == LStripChars(SubSeq(t, k, Len(t)), {" "})
    IN  IF t = <<>> THEN <<>>
        ELSE IF rest = <<>> THEN <<SubSeq(t, 1, k - 1)>>
        ELSE <<SubSeq(t, 1, k - 1), rest>>

\* SlashCommandHandler.is_command.
IsCommand(text) == StartsWith(Strip(text), <<"/">>)

InitName == <<"i", "n", "i", "t">>
ConfigName == <<"c", "o", "n", "f", "i", "g">>
ClearName == <<"c", "l", "e", "a", "r">>
HelpName == <<"h", "e", "l", "p">>
ToolsName == <<"t", "o", "o", "l", "s">>
ModelName == <<"m", "o", "d", "e", "l">>
StatusName == <<"s", "t", "a", "t", "u", "s">>
QuitName == <<"q", "u", "i", "t">>
ExitName == <<"e", "x", "i", "t">>

\* The commands registered by _register_default_commands.
Commands == {InitName, ConfigName, ClearName, HelpName, ToolsName, ModelName,
             StatusName, MemoryName, ForgetName, RememberName, QuitName, ExitName}

(***************************************************************************)
(* Config and the adapter factory.  Model names and paths are tuples of    *)
(* characters, as the texts of the commands are.                           *)
(***************************************************************************)
GeminiName == <<"g", "e", "m", "i", "n", "i">>
OllamaName == <<"o", "l", "l", "a", "m", "a">>
GeminiFlash == <<"g", "e", "m", "i", "n", "i", "-", "2", ".", "5", "-", "f", "l", "a", "s", "h">>
QwenLatest == <<"q", "w", "e", "n", "2", ".", "5", ":", "l", "a", "t", "e", "s", "t">>
Cwd == <<"c", "w", "d">>

\* Config as get_config builds it under the default environment.
DefaultConfig == [default_provider |-> "gemini", gemini_model |-> GeminiFlash,
                  ollama_model |-> QwenLatest, project_root |-> Cwd]

\* ModelProvider(provider.lower()): the provider, or none for a ValueError.
ProviderOf(value) ==
    IF Lower(value) = GeminiName THEN <<"gemini">>
    ELSE IF Lower(value) = OllamaName THEN <<"ollama">>
    ELSE <<>>

\* Config.switch_provider, for a valid provider.
SwitchProvider(cfg, value) == [cfg EXCEPT !.default_provider = ProviderOf(value)[1]]

\* Config.switch_model.
SwitchModel(cfg, model) ==
    IF cfg.default_provider = "gemini" THEN [cfg EXCEPT !.gemini_model = model]
    ELSE [cfg EXCEPT !.ollama_model = model]

\* Config.current_model.
CurrentModel(cfg) ==
    IF cfg.default_provider = "gemini" THEN cfg.gemini_model ELSE cfg.ollama_model

\* get_client(config=cfg): a new adapter instance, the id-th one built.
GetClient(cfg, id) ==
    IF cfg.default_provider = "gemini"
    THEN [id |-> id, provider |-> "gemini", model_name |-> cfg.gemini_model]
    ELSE [id |-> id, provider |-> "ollama", model_name |-> cfg.ollama_model]

NoDispatch == <<>>
NoInput == [text |-> <<>>, kind |-> "none", n |-> 0]

\* The run loop and its configuration where a specification leaves them alone.
RunIdle ==
    /\ config = DefaultConfig
    /\ client = GetClient(DefaultConfig, 1)
    /\ running = FALSE
    /\ run_at = "NotStarted"
    /\ model_calls = <<>>
    /\ context_log = <<>>
    /\ dispatched = NoDispatch
    /\ last_input = NoInput
    /\ run_rendered = <<>>

\* The REST handler where a specification leaves it alone.
NoRequest == [text |-> <<>>]
RestIdle ==
    /\ rest_request = NoRequest
    /\ rest_sent = <<>>
    /\ terminal_request = NoRequest
    /\ terminal_sent = <<>>

\* The adapters' parsers and the caller of get_messages where a
\* specification leaves them alone.
NoRaw == [client |-> "none", parts |-> <<>>]
ParseIdle ==
    /\ raw_response = NoRaw
    /\ parsed = [tool_calls |-> <<>>]
NotReturned == [held |-> FALSE, list |-> <<>>, edits |-> 0]
CallerIdle == caller_list = NotReturned

Rendered(kind, what) == [kind |-> kind, what |-> what]
ServiceCall(fn, arg) == [fn |-> fn, arg |-> arg]

NotEnabledError == Rendered("error", "Memory service is not enabled.")
ConfirmPrompt == Rendered("info", "Confirm Delete All")

\* The state after a handler returned to execute.
Handled(r, sc, bc, st) ==
    /\ rendered' = r
    /\ service_calls' = sc
    /\ backend_calls' = bc
    /\ store' = st
    /\ handled' = "handled"

\* A slip: '/forget all' deletes at once, without the confirmation.
CmdForgetWithoutConfirm(args, raises, delete_raises) ==
    LET wiped == DeleteAll(raises)
    IN  IF ~IsEnabled
        THEN Handled(<<NotEnabledError>>, <<>>, <<>>, store)
        ELSE Handled(<<Rendered(IF wiped.value THEN "success" ELSE "error",
                                "delete all")>>,
                     <<ServiceCall("delete_all", <<>>)>>, wiped.calls, wiped.store)

\* SlashCommandHandler._cmd_forget.
CmdForget(args, raises, delete_raises) ==
    LET stripped == Strip(args)
        wiped == DeleteAll(raises)
        partial_id == StripChars(stripped, {"<", ">"})
        memories == GetAll(100, raises)
        matching == {k \in 1..Len(memories.value) :
                        StartsWith(memories.value[k].id, partial_id)}
        full_id == memories.value[CHOOSE k \in matching :
                                      \A j \in matching : k <= j].id
        deleted == Delete(full_id, delete_raises)
    IN  IF ~IsEnabled
        THEN Handled(<<NotEnabledError>>, <<>>, <<>>, store)
        ELSE IF stripped = <<>>
        THEN Handled(<<Rendered("error", "Usage: /forget")>>, <<>>, <<>>, store)
        ELSE IF Lower(stripped) = AllArg
        THEN Handled(<<ConfirmPrompt>>, <<>>, <<>>, store)
        ELSE IF Lower(stripped) = AllConfirmArg
        THEN Handled(<<Rendered(IF wiped.value THEN "success" ELSE "error",
                                "delete all")>>,
                     <<ServiceCall("delete_all", <<>>)>>, wiped.calls, wiped.store)
        ELSE IF matching = {}
        THEN Handled(<<Rendered("error", "No memory found matching ID")>>,
                     <<ServiceCall("get_all", <<>>)>>, memories.calls, store)
        ELSE Handled(<<Rendered(IF deleted.value THEN "success" ELSE "error",
                                "delete")>>,
                     <<ServiceCall("get_all", <<>>), ServiceCall("delete", full_id)>>,
                     memories.calls \o deleted.calls, deleted.store)

\* SlashCommandHandler._cmd_memory.
CmdMemory(args, raises) ==
    LET searching == StartsWith(Strip(args), SearchPrefix)
        query == SubSeq(Strip(args), 8, Len(Strip(args)))
    IN  IF ~IsEnabled
        THEN Handled(<<Rendered("error", "Memory service is not enabled. Check MEM0_API_KEY in .env")>>,
                     <<>>, <<>>, store)
        ELSE \E hits \in SearchHits(10) :
                 LET memories == IF searching THEN Search(query, 10, raises, hits)
                                 ELSE GetAll(20, raises)
                     fn == IF searching THEN "search" ELSE "get_all"
                 IN  Handled(<<Rendered("info",
                                        IF memories.value = <<>>
                                        THEN "No memories found."
                                        ELSE "memories")>>,
                             <<ServiceCall(fn, <<>>)>>, memories.calls, store)

\* SlashCommandHandler._cmd_remember.
CmdRemember(args, raises) ==
    IF ~IsEnabled
    THEN Handled(<<NotEnabledError>>, <<>>, <<>>, store)
    ELSE IF Strip(args) = <<>>
    THEN Handled(<<Rendered("error", "Usage: /remember")>>, <<>>, <<>>, store)
    ELSE /\ Len(store) < MaxStore
         /\ \E new \in FreeIds :
                LET added_text == AddText(Strip(args), "semantic", raises, new)
                IN  Handled(<<Rendered(IF added_text.value THEN "success" ELSE "error",
                                       "remember")>>,
                            <<ServiceCall("add_text", <<>>)>>,
                            added_text.calls, added_text.store)

\* The texts typed at the prompt.
CommandTexts ==
    {<<"/">> \o ForgetName \o <<" ">> \o AllArg,
     <<"/">> \o ForgetName \o <<" ">> \o AllConfirmArg,
     <<"/", "F">> \o Tail(ForgetName) \o <<" ", "A", "l", "l", " ", "C">>
         \o Tail(ConfirmWord),
     <<" ", "/">> \o ForgetName \o <<" ", " ">> \o AllArg \o <<" ">>,
     <<"/">> \o ForgetName \o <<" ">> \o AllArg \o <<" ", " ">> \o ConfirmWord,
     <<"/">> \o ForgetName,
     <<"/">> \o ForgetName \o <<" ", "a">>,
     <<"/">> \o ForgetName \o <<" ", "<", "a", "c", ">">>,
     <<"/">> \o ForgetName \o <<" ", "<", ">">>,
     <<"/">> \o ForgetName \o <<" ", "z">>,
     <<"/">> \o MemoryName,
     <<"/">> \o MemoryName \o <<" ">> \o SearchPrefix \o <<"t", "e", "a">>,
     <<"/">> \o RememberName \o <<" ", "t", "e", "a">>,
     <<"/">> \o RememberName,
     <<"/", "n", "o">>,
     <<"/">>,
     <<"h", "i">>,
     <<"/", "s", "t", "a", "t", "u", "s">>,
     <<"/", "h", "e", "l", "p">>,
     <<"/", "t", "o", "o", "l", "s">>,
     <<"/", "m", "o", "d", "e", "l">>,
     <<"/", "c", "o", "n", "f", "i", "g">>,
     <<"/", "c", "o", "n", "f", "i", "g", " ", "p", "r", "o", "v", "i", "d", "e", "r", "=", "x">>,
     <<"/", "c", "o", "n", "f", "i", "g", " ", "x", "=", "y">>}

\* What a handler leaves alone.
WindowKept == UNCHANGED windowVars
ConfigKept == UNCHANGED <<config, client>>

\* The state after a handler raised, having rendered r before.
Failed(r) ==
    /\ rendered' = r
    /\ service_calls' = <<>>
    /\ backend_calls' = <<>>
    /\ store' = store
    /\ handled' = "raised"

\* A slip: rendering resets the token counter.
ShownResettingTokens(r) ==
    /\ Handled(<<r>>, <<>>, <<>>, store)
    /\ total_tokens_used' = 0
    /\ UNCHANGED <<messages, max_messages, sliding_window_size, nextId, added,
                   clearedAt>>
    /\ ConfigKept

\* A handler that renders and does nothing else.
Shown(r) == Handled(<<r>>, <<>>, <<>>, store) /\ WindowKept /\ ConfigKept

\* The end of _cmd_config and _cmd_model: the configuration is changed to
\* cfg, then get_client builds the adapter of cfg, which replaces
\* agent.client, or the adapter's constructor raises.
Rebuilt(cfg, builds, what) ==
    /\ config' = cfg
    /\ IF builds
       THEN /\ client.id < MaxClients
            /\ client' = GetClient(cfg, client.id + 1)
            /\ Handled(<<Rendered("success", what)>>, <<>>, <<>>, store)
       ELSE /\ client' = client
            /\ Failed(<<>>)
    /\ WindowKept

\* SlashCommandHandler._cmd_init; `exists` is project_path.exists().
CmdInitArgs(args, exists) ==
    LET project_path == IF Strip(args) # <<>> THEN Strip(args) ELSE Cwd
        context_message ==
            Message(nextId, "system", <<"Project initialized at: ">> \o project_path,
                    <<>>, None, "")
    IN  IF ~exists
        THEN Shown(Rendered("error", "Path does not exist"))
        ELSE /\ nextId <= MaxSessionIds
             /\ config' = [config EXCEPT !.project_root = project_path]
             /\ client' = client
             /\ messages' = AddMessageTo(messages, context_message, max_messages,
                                         sliding_window_size)
             /\ added' = Append(added, context_message)
             /\ nextId' = nextId + 1
             /\ UNCHANGED <<max_messages, sliding_window_size, total_tokens_used,
                            clearedAt>>
             /\ Handled(<<Rendered("success", "Project Initialized")>>, <<>>, <<>>,
                        store)

\* str.split("=", 1).
SplitEq(s) ==
    LET eqs == {k \in 1..Len(s) : s[k] = "="}
        k == CHOOSE i \in eqs : \A j \in eqs : i <= j
    IN  IF eqs = {} THEN <<s>>
        ELSE <<SubSeq(s, 1, k - 1), SubSeq(s, k + 1, Len(s))>>

ProviderKey == <<"p", "r", "o", "v", "i", "d", "e", "r">>

\* SlashCommandHandler._cmd_config.
CmdConfig(args, builds) ==
    LET parts == SplitEq(args)
        key == Strip(parts[1])
        value == Strip(parts[2])
    IN  IF args = <<>>
        THEN Shown(Rendered("info", "Configuration"))
        ELSE IF Len(parts) # 2
        THEN Shown(Rendered("error", "Usage: /config KEY=VALUE"))
        ELSE IF key = ModelName
        THEN Rebuilt(SwitchModel(config, value), builds, "Switched model")
        ELSE IF key = ProviderKey
        THEN IF ProviderOf(value) = <<>>
             THEN Shown(Rendered("error", "Invalid provider"))
             ELSE Rebuilt(SwitchProvider(config, value), builds, "Switched provider")
        ELSE Shown(Rendered("error", "Unknown config key"))

\* SlashCommandHandler._cmd_clear.
CmdClearArgs(args) ==
    /\ messages' = ClearedMessages(messages)
    /\ total_tokens_used' = 0
    /\ clearedAt' = Len(added)
    /\ UNCHANGED <<max_messages, sliding_window_size, nextId, added>>
    /\ ConfigKept
    /\ Handled(<<Rendered("success", "Context Cleared")>>, <<>>, <<>>, store)

\* SlashCommandHandler._cmd_help.
CmdHelp(args) == Shown(Rendered("info", "Help"))

\* SlashCommandHandler._cmd_tools.
CmdTools(args) == Shown(Rendered("info", "Available Tools"))

\* SlashCommandHandler._cmd_model.
CmdModel(args, builds) ==
    LET model == Lower(Strip(args))
    IN  IF args = <<>>
        THEN Shown(Rendered("info", "Model Selection"))
        ELSE IF model \in {GeminiName, OllamaName}
        THEN Rebuilt(SwitchProvider(config, model), builds, "Switched to")
        ELSE Rebuilt(SwitchModel(IF StartsWith(model, GeminiName)
                                 THEN SwitchProvider(config, GeminiName)
                                 ELSE config,
                                 model),
                     builds, "Switched to model")

\* SlashCommandHandler._cmd_status, with MemoryService.get_stats.
CmdStatus(args, raises) ==
    LET memories == GetAll(100, raises)
    IN  /\ IF IsEnabled
           THEN Handled(<<Rendered("info", "Status")>>,
                        <<ServiceCall("get_stats", <<>>)>>, memories.calls, store)
           ELSE Handled(<<Rendered("info", "Status")>>, <<>>, <<>>, store)
        /\ WindowKept
        /\ ConfigKept

\* A slip: the handler says goodbye and leaves running as it is.
CmdQuitStillRunning(args) ==
    /\ Shown(Rendered("info", "Exiting"))
    /\ running' = running

\* SlashCommandHandler._cmd_quit.
CmdQuit(args) ==
    /\ Shown(Rendered("info", "Exiting"))
    /\ running' = FALSE

\* SlashCommandHandler.execute.
Execute(text) ==
    LET parts == SplitOnce(Tail(Strip(text)))
        cmd_name == Lower(parts[1])
        args == IF Len(parts) > 1 THEN parts[2] ELSE <<>>
    IN  /\ command' = text
        /\ IF ~IsCommand(text)
           THEN /\ handled' = "not a command"
                /\ rendered' = <<>>
                /\ service_calls' = <<>>
                /\ backend_calls' = <<>>
                /\ store' = store
                /\ dispatched' = NoDispatch
                /\ WindowKept /\ ConfigKept /\ running' = running
           ELSE IF parts = <<>>
           THEN \* parts[0] raises IndexError
                /\ Failed(<<>>)
                /\ dispatched' = NoDispatch
                /\ WindowKept /\ ConfigKept /\ running' = running
           ELSE IF cmd_name \notin Commands
           THEN /\ Shown(Rendered("error", "Unknown command"))
                /\ dispatched' = NoDispatch
                /\ running' = running
           ELSE /\ dispatched' = [name |-> cmd_name, args |-> args]
                /\ CASE cmd_name = InitName ->
                            \E exists \in BOOLEAN :
                                CmdInitArgs(args, exists) /\ running' = running
                     [] cmd_name = ConfigName ->
                            \E builds \in BOOLEAN :
                                CmdConfig(args, builds) /\ running' = running
                     [] cmd_name = ClearName ->
                            CmdClearArgs(args) /\ running' = running
                     [] cmd_name = HelpName -> CmdHelp(args) /\ running' = running
                     [] cmd_name = ToolsName -> CmdTools(args) /\ running' = running
                     [] cmd_name = ModelName ->
                            \E builds \in BOOLEAN :
                                CmdModel(args, builds) /\ running' = running
                     [] cmd_name = StatusName ->
                            \E raises \in BOOLEAN :
                                CmdStatus(args, raises) /\ running' = running
                     [] cmd_name = MemoryName ->
                            \E raises \in BOOLEAN :
                                /\ CmdMemory(args, raises)
                                /\ WindowKept /\ ConfigKept /\ running' = running
                     [] cmd_name = ForgetName ->
                            \E raises \in BOOLEAN, delete_raises \in BOOLEAN :
                                /\ CmdForget(args, raises, delete_raises)
                                /\ WindowKept /\ ConfigKept /\ running' = running
                     [] cmd_name = RememberName ->
                            \E raises \in BOOLEAN :
                                /\ CmdRemember(args, raises)
                                /\ WindowKept /\ ConfigKept /\ running' = running
                     [] cmd_name \in {QuitName, ExitName} -> CmdQuit(args)
        /\ UNCHANGED <<has_client, memory_enabled, svc, svc_result>>
        /\ UNCHANGED <<toolVars, loopVars, clientVars, thinkingVars, restVars, parseVars, callerVars>>

\* What execute leaves alone of the run loop.
RunKept == UNCHANGED <<run_at, model_calls, context_log, last_input, run_rendered>>

CommandNext == \E text \in CommandTexts : Execute(text) /\ RunKept

MemoryNext ==
    \/ CallSearch
    \/ CallGetAll
    \/ CallAdd
    \/ CallAddText
    \/ CallDelete
    \/ CallDeleteAll
    \/ CallGetMemoryContext
    \/ CallExtractAndStore

(***************************************************************************)
(* The window on its own: any sequence of add_message and clear calls.     *)
(***************************************************************************)
WindowInit ==
    /\ messages = <<>>
    /\ max_messages \in 1..MaxMaxMessages
    /\ sliding_window_size \in 0..MaxWindowSize
    /\ total_tokens_used = 0
    /\ nextId = 1
    /\ added = <<>>
    /\ clearedAt = 0

WindowIdle ==
    /\ messages = <<>>
    /\ max_messages = DefaultMaxMessages
    /\ sliding_window_size = DefaultSlidingWindowSize
    /\ total_tokens_used = 0
    /\ nextId = 1
    /\ added = <<>>
    /\ clearedAt = 0

ToolIdle == call = NoCall /\ results = <<>>

\* History of the turn under way.  first_usage is the usage of its first
\* response, once there is one; since_clear sums the first responses'
\* total_tokens since the session's last '/clear' (CmdClear resets it).
NoTurn == [n |-> 0, raised |-> "none", final |-> <<>>, after_user |-> <<>>,
           tokens_before |-> 0, model_calls |-> 0, first_usage |-> <<>>,
           since_clear |-> 0]

LoopIdle ==
    /\ pc = "Idle"
    /\ user_input = EmptyText
    /\ memory_auto_extract = TRUE
    /\ is_enabled = IsEnabled
    /\ extract_calls = <<>>
    /\ tool_runs = <<>>
    /\ chat_raised = FALSE
    /\ extract_results = <<>>
    /\ turn = NoTurn
    /\ step = "init"

AddMessage(role) ==
    /\ nextId <= MaxAdds
    /\ LET m == Message(nextId, role, EmptyText, <<>>, None, "")
       IN  /\ messages' = AddMessageTo(messages, m, max_messages, sliding_window_size)
           /\ added' = Append(added, m)
    /\ nextId' = nextId + 1
    /\ UNCHANGED <<max_messages, sliding_window_size, total_tokens_used, clearedAt>>
    /\ UNCHANGED <<toolVars, loopVars, memoryVars, commandVars, clientVars, thinkingVars, runVars, restVars, parseVars, callerVars>>

Clear ==
    /\ messages' = ClearedMessages(messages)
    /\ total_tokens_used' = 0
    /\ clearedAt' = Len(added)
    /\ UNCHANGED <<max_messages, sliding_window_size, nextId, added>>
    /\ UNCHANGED <<toolVars, loopVars, memoryVars, commandVars, clientVars, thinkingVars, runVars, restVars, parseVars, callerVars>>

WindowNext ==
    \/ \E role \in Roles : AddMessage(role)
    \/ Clear

vars == <<windowVars, toolVars, loopVars, memoryVars, commandVars, clientVars, thinkingVars, runVars, restVars, parseVars, callerVars>>

InitWindow == WindowInit /\ ToolIdle /\ MemoryIdle /\ LoopIdle /\ CommandIdle /\ ClientIdle
    /\ ThinkingInit /\ RunIdle /\ RestIdle /\ ParseIdle /\ CallerIdle

SpecWindow == InitWindow /\ [][WindowNext]_vars

ToolNext ==
    \/ CallExecute /\ UNCHANGED <<windowVars, loopVars, memoryVars, commandVars, clientVars, thinkingVars, runVars, restVars, parseVars, callerVars>>
    \/ CallExecuteToolCall /\ UNCHANGED <<windowVars, loopVars, memoryVars, commandVars, clientVars, thinkingVars, runVars, restVars, parseVars, callerVars>>

InitTools == WindowIdle /\ ToolInit /\ MemoryIdle /\ LoopIdle /\ CommandIdle /\ ClientIdle
    /\ ThinkingInit /\ RunIdle /\ RestIdle /\ ParseIdle /\ CallerIdle

SpecTools == InitTools /\ [][ToolNext]_vars

\* The memory service on its own: any sequence of calls of its methods.
InitMemory == WindowIdle /\ ToolIdle /\ MemoryInit /\ LoopIdle /\ CommandIdle /\ ClientIdle
    /\ ThinkingInit /\ RunIdle /\ RestIdle /\ ParseIdle /\ CallerIdle

SpecMemory == InitMemory /\ [][MemoryNext]_vars

ClientNext ==
    \/ GeminiChat /\ UNCHANGED <<windowVars, toolVars, loopVars, memoryVars, commandVars, thinkingVars, runVars, restVars, parseVars, callerVars>>
    \/ OllamaChat /\ UNCHANGED <<windowVars, toolVars, loopVars, memoryVars, commandVars, thinkingVars, runVars, restVars, parseVars, callerVars>>

InitClients ==
    /\ WindowIdle /\ ToolIdle /\ MemoryIdle /\ LoopIdle /\ CommandIdle /\ ClientInit
    /\ ThinkingInit /\ RunIdle /\ RestIdle /\ ParseIdle /\ CallerIdle

SpecClients == InitClients /\ [][ClientNext]_vars

ThinkingRest == <<windowVars, toolVars, loopVars, memoryVars, commandVars, clientVars,
                  runVars, restVars, parseVars, callerVars>>

ThinkingSteps ==
    \/ ChatBegins /\ UNCHANGED ThinkingRest
    \/ \E result \in CallResults : ModelCallEnds(result) /\ UNCHANGED ThinkingRest
    \/ TimerFires /\ UNCHANGED ThinkingRest
    \/ StepIndicator /\ UNCHANGED ThinkingRest
    \/ StepChat /\ UNCHANGED ThinkingRest

InitThinking ==
    /\ WindowIdle /\ ToolIdle /\ MemoryIdle /\ LoopIdle /\ CommandIdle /\ ClientIdle
    /\ ThinkingInit /\ RunIdle /\ RestIdle /\ ParseIdle /\ CallerIdle

SpecThinking == InitThinking /\ [][ThinkingSteps]_vars

\* The dispatcher over a memory service: any sequence of texts.
InitCommands == WindowIdle /\ ToolIdle /\ MemoryInit /\ LoopIdle /\ CommandIdle /\ ClientIdle
    /\ ThinkingInit /\ RunIdle /\ RestIdle /\ ParseIdle /\ CallerIdle

SpecCommands == InitCommands /\ [][CommandNext]_vars

(***************************************************************************)
(* The scenario of one system message followed by 60 user/assistant pairs, *)
(* added one message at a time to a window with the default sizes.         *)
(***************************************************************************)
ScenarioMessages == 1 + 2 * 60

ScenarioRole(k) ==
    IF k = 1 THEN "system" ELSE IF k % 2 = 0 THEN "user" ELSE "assistant"

ScenarioAdd ==
    /\ nextId <= ScenarioMessages
    /\ LET m == Message(nextId, ScenarioRole(nextId), EmptyText, <<>>, None, "")
       IN  /\ messages' = AddMessageTo(messages, m, max_messages, sliding_window_size)
           /\ added' = Append(added, m)
    /\ nextId' = nextId + 1
    /\ UNCHANGED <<max_messages, sliding_window_size, total_tokens_used, clearedAt>>
    /\ UNCHANGED <<toolVars, loopVars, memoryVars, commandVars, clientVars, thinkingVars, runVars, restVars, parseVars, callerVars>>

InitScenario == WindowIdle /\ ToolIdle /\ MemoryIdle /\ LoopIdle /\ CommandIdle /\ ClientIdle
    /\ ThinkingInit /\ RunIdle /\ RestIdle /\ ParseIdle /\ CallerIdle

SpecScenario == InitScenario /\ [][ScenarioAdd]_vars

(***************************************************************************)
(* The agent loop: one session of chat turns and slash commands.           *)
(***************************************************************************)
UserInputs == {Text("q1"), Text("q2")}

\* The text typed in the k-th turn: consecutive turns get different texts.
InputOfTurn(k) == IF k % 2 = 1 THEN Text("q1") ELSE Text("q2")

\* Window sizes of a session: small ones, under which eviction happens
\* within a turn, and the defaults of MemoryManager.
WindowSettings == {<<MaxMaxMessages, MaxWindowSize>>,
                   <<DefaultMaxMessages, DefaultSlidingWindowSize>>}
Contents == {EmptyText, Text("answer")}

\* LLMResponse.usage: an empty dict, or one holding total_tokens.
NoUsage == [k \in {} |-> 0]
Usages == {NoUsage, [total_tokens |-> 1]}

\* Tool calls a provider response may carry.
CallLs == [id |-> Text("call_1"), name |-> "ls",
           arguments |-> [kind |-> "dict", keys |-> {"path"}]]
CallRead == [id |-> Text("call_2"), name |-> "read_file",
             arguments |-> [kind |-> "str", text |-> <<"{", "}">>]]
CallNameKey == [id |-> Text("call_3"), name |-> "ls",
                arguments |-> [kind |-> "dict", keys |-> {"name"}]]
ToolCallLists == {<<>>, <<CallLs>>, <<CallLs, CallRead>>, <<CallLs, CallNameKey>>,
                  <<CallNameKey, CallLs>>}

\* LLMResponse values the model adapter may return.
Responses ==
    [content : Contents, tool_calls : ToolCallLists, usage : Usages]

\* Follow-up responses: their tool calls are rendered and nothing else.
FollowupResponses == {r \in Responses : r.tool_calls \in {<<>>, <<CallLs>>}}

\* MemoryManager.add_message for each message of a list in turn.
RECURSIVE AddAll(_, _, _, _)
AddAll(ms, new, maxm, n) ==
    IF new = <<>> THEN ms
    ELSE AddAll(AddMessageTo(ms, Head(new), maxm, n), Tail(new), maxm, n)

\* A slip: a response without usage counts as one token.
TokensAfterCountingCalls(total, usage) ==
    IF DOMAIN usage # {} THEN total + Get(usage, "total_tokens", 0) ELSE total + 1

\* MemoryManager.update_token_usage, under `if response.usage:`.
TokensAfter(total, usage) ==
    IF DOMAIN usage # {} THEN total + Get(usage, "total_tokens", 0) ELSE total

IsAssistant(m) == m.role = "assistant"

\* The `last_response` of _chat's finally block: the content of the last
\* assistant message in the window, if there is one.
LastAssistantContent(ms) ==
    LET assistant_responses == SelectSeq(ms, IsAssistant)
    IN  IF assistant_responses = <<>> THEN <<>>
        ELSE <<assistant_responses[Len(assistant_responses)].content>>

\* The finally block of _chat: the extract_and_store calls after it ran.
ExtractCallsAfter(calls, ms, u) ==
    IF memory_auto_extract /\ is_enabled /\ LastAssistantContent(ms) # <<>>
    THEN Append(calls, [user_input |-> u,
                        assistant_response |-> LastAssistantContent(ms)[1]])
    ELSE calls

\* The finally block of _chat: what its extract_and_store call, if it makes
\* one, gives back to _chat, with the window the call was made on.
Extracted(ms, u) ==
    IF memory_auto_extract /\ is_enabled /\ LastAssistantContent(ms) # <<>>
    THEN \E raises \in BOOLEAN, new \in FreeIds :
             LET r == ExtractAndStore(u, LastAssistantContent(ms)[1], raises, new)
             IN  /\ extract_results' =
                        <<[value |-> r.value, raised |-> r.raised, window |-> ms]>>
                 /\ chat_raised' = r.raised
    ELSE extract_results' = <<>> /\ chat_raised' = FALSE

\* AgentLoop._process_tool_calls: the outcomes of execute_tool_call on the
\* calls in order, up to and including the first that raises.
RECURSIVE ToolOutcomes(_, _)
ToolOutcomes(tool_calls, outcome) ==
    IF tool_calls = <<>> THEN <<>>
    ELSE LET r == ExecuteToolCall(Head(tool_calls), outcome)
         IN  IF r.raised THEN <<r>>
             ELSE <<r>> \o ToolOutcomes(Tail(tool_calls), outcome)

\* A slip: the tool message takes the synthesized id whatever the call's id.
ToolMessageSynthesizedId(id, tc, r) ==
    Message(id, "tool", r.text, <<>>,
            <<"call_", Get(tc, "name", "")>>, Get(tc, "name", ""))

\* AgentLoop._process_tool_calls: the tool-role message for call tc.
ToolMessage(id, tc, r) ==
    Message(id, "tool", r.text, <<>>,
            Get(tc, "id", <<"call_", Get(tc, "name", "")>>), Get(tc, "name", ""))

\* AgentLoop.__init__ with _initialize_system_message.
LoopInit ==
    /\ \E w \in WindowSettings :
           max_messages = w[1] /\ sliding_window_size = w[2]
    /\ LET m == Message(1, "system", Text("instruction"), <<>>, None, "")
       IN  /\ messages = AddMessageTo(<<>>, m, max_messages, sliding_window_size)
           /\ added = <<m>>
    /\ nextId = 2
    /\ total_tokens_used = 0
    /\ clearedAt = 0
    /\ pc = "Idle"
    /\ user_input = EmptyText
    /\ memory_auto_extract \in BOOLEAN
    /\ is_enabled \in BOOLEAN
    /\ extract_calls = <<>>
    /\ tool_runs = <<>>
    /\ chat_raised = FALSE
    /\ extract_results = <<>>
    /\ turn = NoTurn
    /\ step = "init"

\* _chat up to its first await of client.chat.
ChatStart(u) ==
    /\ pc = "Idle"
    /\ nextId <= MaxSessionIds
    /\ u = InputOfTurn(turn.n + 1)
    /\ LET m == Message(nextId, "user", u, <<>>, None, "")
       IN  /\ messages' = AddMessageTo(messages, m, max_messages, sliding_window_size)
           /\ added' = Append(added, m)
    /\ nextId' = nextId + 1
    /\ pc' = "AwaitingModelResponse"
    /\ user_input' = u
    /\ extract_calls' = <<>>
    /\ tool_runs' = <<>>
    /\ chat_raised' = FALSE
    /\ extract_results' = <<>>
    /\ turn' = [n |-> turn.n + 1, raised |-> "none", final |-> <<>>,
                after_user |-> messages', tokens_before |-> total_tokens_used,
                model_calls |-> 1, first_usage |-> <<>>,
                since_clear |-> turn.since_clear]
    /\ step' = "ChatStart"
    /\ UNCHANGED <<max_messages, sliding_window_size, total_tokens_used, clearedAt,
                   memory_auto_extract, is_enabled>>

\* A slip: the failed turn's user message is rolled back.
FirstCallRaisesRollingBack ==
    /\ pc = "AwaitingModelResponse"
    /\ pc' = "Idle"
    /\ messages' = SubSeq(messages, 1, Len(messages) - 1)
    /\ extract_calls' = ExtractCallsAfter(extract_calls, messages', user_input)
    /\ Extracted(messages', user_input)
    /\ turn' = [turn EXCEPT !.raised = "first"]
    /\ step' = "FirstCallRaises"
    /\ UNCHANGED <<max_messages, sliding_window_size, total_tokens_used, nextId,
                   added, clearedAt, user_input, memory_auto_extract, is_enabled,
                   tool_runs>>

\* The first client.chat raises: the except and finally blocks of _chat.
FirstCallRaises ==
    /\ pc = "AwaitingModelResponse"
    /\ pc' = "Idle"
    /\ extract_calls' = ExtractCallsAfter(extract_calls, messages, user_input)
    /\ Extracted(messages, user_input)
    /\ turn' = [turn EXCEPT !.raised = "first"]
    /\ step' = "FirstCallRaises"
    /\ UNCHANGED <<windowVars, user_input, memory_auto_extract, is_enabled,
                   tool_runs>>

\* The first client.chat returns `response`: _chat from there to its next
\* await of client.chat, or to its return.
FirstCallReturns(response, outcome) ==
    /\ pc = "AwaitingModelResponse"
    /\ total_tokens_used' = TokensAfter(total_tokens_used, response.usage)
    /\ IF response.tool_calls # <<>>
       THEN LET assistant_msg == Message(nextId, "assistant", response.content,
                                         response.tool_calls, None, "")
                with_assistant == AddMessageTo(messages, assistant_msg,
                                               max_messages, sliding_window_size)
                outcomes == ToolOutcomes(response.tool_calls, outcome)
                tool_responses ==
                    [i \in 1..Len(outcomes) |->
                        ToolMessage(nextId + i, response.tool_calls[i], outcomes[i])]
                failed == outcomes[Len(outcomes)].raised
            IN  /\ tool_runs' = [i \in 1..Len(outcomes) |->
                                    [id |-> response.tool_calls[i].id,
                                     invoked |-> outcomes[i].invoked]]
                /\ IF failed
                   THEN \* a tool call raised: the except and finally blocks
                        /\ messages' = with_assistant
                        /\ added' = Append(added, assistant_msg)
                        /\ nextId' = nextId + 1
                        /\ pc' = "Idle"
                        /\ extract_calls' =
                               ExtractCallsAfter(extract_calls, messages', user_input)
                        /\ Extracted(messages', user_input)
                        /\ turn' = [turn EXCEPT !.raised = "tool",
                                                 !.first_usage = <<response.usage>>,
                                                 !.since_clear = @ + Get(response.usage, "total_tokens", 0)]
                   ELSE /\ messages' = AddAll(with_assistant, tool_responses,
                                              max_messages, sliding_window_size)
                        /\ added' = Append(added, assistant_msg) \o tool_responses
                        /\ nextId' = nextId + 1 + Len(tool_responses)
                        /\ pc' = "AwaitingFollowupResponse"
                        /\ extract_calls' = extract_calls
                        /\ UNCHANGED <<extract_results, chat_raised>>
                        /\ turn' = [turn EXCEPT !.model_calls = 2,
                                                 !.first_usage = <<response.usage>>,
                                                 !.since_clear = @ + Get(response.usage, "total_tokens", 0)]
       ELSE /\ IF response.content # EmptyText
               THEN LET m == Message(nextId, "assistant", response.content, <<>>, None, "")
                    IN  /\ messages' = AddMessageTo(messages, m, max_messages,
                                                    sliding_window_size)
                        /\ added' = Append(added, m)
                        /\ nextId' = nextId + 1
               ELSE UNCHANGED <<messages, added, nextId>>
            /\ pc' = "Idle"
            /\ extract_calls' = ExtractCallsAfter(extract_calls, messages', user_input)
            /\ Extracted(messages', user_input)
            /\ tool_runs' = tool_runs
            /\ turn' = [turn EXCEPT !.final = <<response.content>>,
                                     !.first_usage = <<response.usage>>,
                                     !.since_clear = @ + Get(response.usage, "total_tokens", 0)]
    /\ step' = "FirstCallReturns"
    /\ UNCHANGED <<max_messages, sliding_window_size, clearedAt, user_input,
                   memory_auto_extract, is_enabled>>

\* The follow-up client.chat raises: the except and finally blocks of _chat.
FollowupRaises ==
    /\ pc = "AwaitingFollowupResponse"
    /\ pc' = "Idle"
    /\ extract_calls' = ExtractCallsAfter(extract_calls, messages, user_input)
    /\ Extracted(messages, user_input)
    /\ turn' = [turn EXCEPT !.raised = "followup"]
    /\ step' = "FollowupRaises"
    /\ UNCHANGED <<windowVars, user_input, memory_auto_extract, is_enabled,
                   tool_runs>>

\* The follow-up client.chat returns `follow_up`: _chat from there to its
\* return.
FollowupReturns(follow_up) ==
    /\ pc = "AwaitingFollowupResponse"
    /\ IF follow_up.content # EmptyText
       THEN LET m == Message(nextId, "assistant", follow_up.content, <<>>, None, "")
            IN  /\ messages' = AddMessageTo(messages, m, max_messages,
                                            sliding_window_size)
                /\ added' = Append(added, m)
                /\ nextId' = nextId + 1
       ELSE UNCHANGED <<messages, added, nextId>>
    /\ pc' = "Idle"
    /\ extract_calls' = ExtractCallsAfter(extract_calls, messages', user_input)
    /\ Extracted(messages', user_input)
    /\ turn' = [turn EXCEPT !.final = <<follow_up.content>>]
    /\ step' = "FollowupReturns"
    /\ UNCHANGED <<max_messages, sliding_window_size, total_tokens_used, clearedAt,
                   user_input, memory_auto_extract, is_enabled, tool_runs>>

\* SlashCommandHandler._cmd_init on an existing path.
CmdInit ==
    /\ pc = "Idle"
    /\ nextId <= MaxSessionIds
    /\ LET m == Message(nextId, "system", Text("project"), <<>>, None, "")
       IN  /\ messages' = AddMessageTo(messages, m, max_messages, sliding_window_size)
           /\ added' = Append(added, m)
    /\ nextId' = nextId + 1
    /\ step' = "CmdInit"
    /\ UNCHANGED <<max_messages, sliding_window_size, total_tokens_used, clearedAt,
                   toolVars, pc, user_input, memory_auto_extract, is_enabled,
                   extract_calls, tool_runs, chat_raised, extract_results, turn,
                   memoryVars, commandVars, clientVars, thinkingVars, runVars, restVars, parseVars, callerVars>>

\* SlashCommandHandler._cmd_clear.
CmdClear ==
    /\ pc = "Idle"
    /\ messages' = ClearedMessages(messages)
    /\ total_tokens_used' = 0
    /\ clearedAt' = Len(added)
    /\ step' = "CmdClear"
    /\ turn' = [turn EXCEPT !.since_clear = 0]
    /\ UNCHANGED <<max_messages, sliding_window_size, nextId, added, toolVars, pc,
                   user_input, memory_auto_extract, is_enabled, extract_calls,
                   tool_runs, chat_raised, extract_results,
                   memoryVars, commandVars, clientVars, thinkingVars, runVars, restVars, parseVars, callerVars>>

Next ==
    \/ \E u \in UserInputs : ChatStart(u) /\ UNCHANGED <<toolVars, memoryVars, commandVars, clientVars, thinkingVars, runVars, restVars, parseVars, callerVars>>
    \/ FirstCallRaises /\ UNCHANGED <<toolVars, memoryVars, commandVars, clientVars, thinkingVars, runVars, restVars, parseVars, callerVars>>
    \/ \E response \in Responses, outcome \in CallableOutcomes :
           FirstCallReturns(response, outcome) /\ UNCHANGED <<toolVars, memoryVars, commandVars, clientVars, thinkingVars, runVars, restVars, parseVars, callerVars>>
    \/ FollowupRaises /\ UNCHANGED <<toolVars, memoryVars, commandVars, clientVars, thinkingVars, runVars, restVars, parseVars, callerVars>>
    \/ \E follow_up \in FollowupResponses : FollowupReturns(follow_up) /\ UNCHANGED <<toolVars, memoryVars, commandVars, clientVars, thinkingVars, runVars, restVars, parseVars, callerVars>>
    \/ CmdInit
    \/ CmdClear

\* The memory service of the session: built with a client or without one,
\* under the default memory_enabled; the session does not read the store.
MemoryOfLoop ==
    /\ has_client = is_enabled
    /\ memory_enabled = TRUE
    /\ store = <<>>
    /\ svc = NoServiceCall
    /\ svc_result = NoServiceResult
    /\ backend_calls = <<>>

Init == LoopInit /\ ToolIdle /\ MemoryOfLoop /\ CommandIdle /\ ClientIdle
    /\ ThinkingInit /\ RunIdle /\ RestIdle /\ ParseIdle /\ CallerIdle

Spec == Init /\ [][Next]_vars

(***************************************************************************)
(* The run loop: AgentLoop.run reading one input after another, giving the *)
(* commands to the dispatcher and the rest to _chat.                       *)
(***************************************************************************)
InitQuery == Text("user preferences and recent context")

\* What the state held before an input was handled.
Snapshot ==
    [messages |-> messages, tokens |-> total_tokens_used, config |-> config,
     client |-> client, store |-> store, model_calls |-> model_calls,
     context_calls |-> Len(context_log), added |-> Len(added)]

\* self.client.chat(...) as _chat calls it: the adapter and the
\* configuration at the call, and the get_memory_context calls made so far.
ModelCall ==
    [client |-> client, provider |-> config.default_provider,
     model |-> CurrentModel(config), context_calls |-> Len(context_log)]

UnexpectedError == Rendered("error", "Unexpected Error")
InterruptNotice == Rendered("info", "Use /quit to exit or Ctrl+C again to force quit.")

\* AgentLoop.__init__ past the window, and run up to its first prompt;
\* `local` is the --local option.
RunStart ==
    /\ \E local \in BOOLEAN :
           config = IF local THEN SwitchProvider(DefaultConfig, OllamaName)
                    ELSE DefaultConfig
    /\ client = GetClient(config, 1)
    /\ running = TRUE
    /\ run_at = "Prompt"
    /\ model_calls = <<>>
    /\ context_log = IF is_enabled THEN <<InitQuery>> ELSE <<>>
    /\ dispatched = NoDispatch
    /\ last_input = NoInput
    /\ run_rendered = <<>>

\* A slip: the prompt is shown while a turn is still awaiting the model.
AtPromptOrInTurn == running /\ run_at \in {"Prompt", "Turn"}

\* run stands in render_input_prompt: the loop condition held and the
\* awaits of the iteration before have returned.
AtPrompt == running /\ run_at = "Prompt"

\* A slip: an exception of a handler ends the loop.
AfterInputUncaught(raised) ==
    /\ run_rendered' = <<>>
    /\ run_at' = IF raised \/ ~running' THEN "Ended" ELSE "Prompt"

\* The end of an iteration of run: `except Exception` renders what was
\* raised, and the loop condition is read again.
AfterInput(raised) ==
    /\ run_rendered' = IF raised THEN <<UnexpectedError>> ELSE <<>>
    /\ run_at' = IF running' THEN "Prompt" ELSE "Ended"

\* The texts typed at the prompt of a session: commands, as tuples of
\* characters, and the chat texts of the turns.
RunTexts ==
    {<<>>,
     <<"/">>,
     <<"/", "n", "o">>,
     <<"/", "h", "e", "l", "p">>,
     <<"/", "c", "l", "e", "a", "r">>,
     <<"/", "i", "n", "i", "t">>,
     <<"/", "m", "o", "d", "e", "l", " ", "o", "l", "l", "a", "m", "a">>,
     <<"/", "m", "o", "d", "e", "l", " ", "g", "e", "m", "i", "n", "i">>,
     <<"/", "C", "O", "N", "F", "I", "G", " ", "a", " ", " ", "b">>,
     <<"/", "c", "o", "n", "f", "i", "g", " ", "m", "o", "d", "e", "l", "=", "m">>,
     <<"/", "q", "u", "i", "t">>,
     <<"/", "e", "x", "i", "t">>}
    \cup UserInputs

\* One iteration of run's loop on the text Prompt.ask returned, up to the
\* next prompt or to _chat's first await of the model.
RunInput(text) ==
    LET typed == Strip(text)
    IN  /\ AtPrompt
        /\ last_input.n < MaxInputs
        /\ IF typed = <<>>
           THEN /\ last_input' = [text |-> typed, kind |-> "empty", raised |-> FALSE,
                                  repeated |-> FALSE, before |-> Snapshot,
                                  n |-> last_input.n + 1]
                /\ run_rendered' = <<>>
                /\ UNCHANGED <<windowVars, toolVars, loopVars, memoryVars, commandVars,
                               clientVars, thinkingVars, restVars, parseVars, callerVars, config, client,
                               running, run_at, model_calls, context_log, dispatched>>
           ELSE IF IsCommand(typed)
           THEN /\ Execute(typed)
                /\ AfterInput(handled' = "raised")
                /\ last_input' = [text |-> typed, kind |-> "command",
                                  raised |-> handled' = "raised",
                                  repeated |-> /\ last_input.kind = "command"
                                               /\ last_input.text = typed
                                               /\ rendered' = rendered,
                                  before |-> Snapshot, n |-> last_input.n + 1]
                /\ UNCHANGED <<model_calls, context_log>>
           ELSE /\ ChatStart(typed)
                /\ run_at' = "Turn"
                /\ model_calls' = <<ModelCall>>
                /\ run_rendered' = <<>>
                /\ last_input' = [text |-> typed, kind |-> "chat", raised |-> FALSE,
                                  repeated |-> FALSE, before |-> Snapshot,
                                  n |-> last_input.n + 1]
                /\ UNCHANGED <<toolVars, memoryVars, commandVars, clientVars,
                               thinkingVars, restVars, parseVars, callerVars, config, client, running,
                               context_log, dispatched>>

\* What a step of _chat does to the run loop: a follow-up call is one more
\* call of self.client.chat, and _chat's return gives the loop its next
\* iteration.
TurnStep ==
    /\ run_at = "Turn"
    /\ model_calls' = IF pc' = "AwaitingFollowupResponse"
                      THEN Append(model_calls, ModelCall) ELSE model_calls
    /\ UNCHANGED <<toolVars, memoryVars, commandVars, clientVars, thinkingVars,
                   restVars, parseVars, callerVars, config, client, running, context_log, dispatched>>
    /\ IF pc' = "Idle"
       THEN /\ AfterInput(chat_raised')
            /\ last_input' = [last_input EXCEPT !.raised = chat_raised']
       ELSE UNCHANGED <<run_at, run_rendered, last_input>>

\* Ctrl+C while Prompt.ask waits: render_input_prompt catches the
\* KeyboardInterrupt and returns "", and run continues with the next prompt.
InterruptAtPrompt ==
    /\ AtPrompt
    /\ last_input' = [text |-> <<>>, kind |-> "interrupt at prompt", raised |-> FALSE,
                      repeated |-> FALSE, before |-> Snapshot, n |-> last_input.n]
    /\ run_rendered' = <<>>
    /\ UNCHANGED <<windowVars, toolVars, loopVars, memoryVars, commandVars, clientVars,
                   thinkingVars, restVars, parseVars, callerVars, config, client, running, run_at,
                   model_calls, context_log, dispatched>>

\* KeyboardInterrupt raised in _chat while it awaits the model: _chat's
\* finally block runs, then run's `except KeyboardInterrupt` renders the
\* notice and sleeps half a second.
InterruptInTurn ==
    /\ run_at = "Turn"
    /\ pc' = "Idle"
    /\ extract_calls' = ExtractCallsAfter(extract_calls, messages, user_input)
    /\ Extracted(messages, user_input)
    /\ turn' = [turn EXCEPT !.raised = "interrupt"]
    /\ step' = "InterruptInTurn"
    /\ run_at' = "Confirming"
    /\ run_rendered' = <<InterruptNotice>>
    /\ last_input' = [last_input EXCEPT !.kind = "interrupt in turn"]
    /\ UNCHANGED <<windowVars, user_input, memory_auto_extract, is_enabled, tool_runs>>
    /\ UNCHANGED <<toolVars, memoryVars, commandVars, clientVars, thinkingVars,
                   restVars, parseVars, callerVars, config, client, running, model_calls, context_log,
                   dispatched>>

\* The half second passes: the loop goes on with the next prompt.
ConfirmSleepEnds ==
    /\ run_at = "Confirming"
    /\ run_at' = "Prompt"
    /\ last_input' = [last_input EXCEPT !.kind = "interrupt lapsed"]
    /\ UNCHANGED <<windowVars, toolVars, loopVars, memoryVars, commandVars, clientVars,
                   thinkingVars, restVars, parseVars, callerVars, config, client, running, model_calls,
                   context_log, dispatched, run_rendered>>

\* A second Ctrl+C within the half second: `break`.
InterruptWhileConfirming ==
    /\ run_at = "Confirming"
    /\ run_at' = "Ended"
    /\ last_input' = [last_input EXCEPT !.kind = "interrupt confirmed"]
    /\ UNCHANGED <<windowVars, toolVars, loopVars, memoryVars, commandVars, clientVars,
                   thinkingVars, restVars, parseVars, callerVars, config, client, running, model_calls,
                   context_log, dispatched, run_rendered>>

\* The provider responses of a session's turns.
RunResponses ==
    {r \in Responses : /\ r.content = Text("answer")
                        /\ r.tool_calls \in {<<>>, <<CallLs>>}
                        /\ r.usage # NoUsage}

RunNext ==
    \/ \E text \in RunTexts : RunInput(text)
    \/ FirstCallRaises /\ TurnStep
    \/ \E response \in RunResponses, outcome \in CallableOutcomes :
           FirstCallReturns(response, outcome) /\ TurnStep
    \/ FollowupRaises /\ TurnStep
    \/ \E follow_up \in RunResponses : FollowupReturns(follow_up) /\ TurnStep
    \/ InterruptAtPrompt
    \/ InterruptInTurn
    \/ ConfirmSleepEnds
    \/ InterruptWhileConfirming

\* A session under the default window and automatic extraction.
InitRun ==
    /\ LoopInit /\ max_messages = DefaultMaxMessages /\ memory_auto_extract
    /\ ToolIdle /\ MemoryOfLoop /\ CommandIdle /\ ClientIdle /\ ThinkingInit
    /\ RunStart /\ RestIdle /\ ParseIdle /\ CallerIdle

SpecRun == InitRun /\ [][RunNext]_vars

(***************************************************************************)
(* The REST chat handler, chat() of backend/app.py, next to a turn of the  *)
(* terminal loop: each is given a text, the response of its first model    *)
(* call and what the tools' callables do, and each leaves the message list *)
(* it hands to its follow-up call.  The memory service is off here, so the *)
(* handler skips get_memory_context and extract_and_store.                 *)
(***************************************************************************)
CallNoId == [name |-> "ls", arguments |-> [kind |-> "dict", keys |-> {"path"}]]

RestResponses ==
    [content : Contents, tool_calls : ToolCallLists \cup {<<CallNoId>>},
     usage : {[total_tokens |-> 1]}]

Request(text, response, outcome) ==
    [text |-> text, response |-> response, outcome |-> outcome]

\* The `for tc in response.tool_calls` loop of chat(): each call is
\* executed, then an assistant message and the call's tool message are
\* appended.  An exception of execute_tool_call leaves the loop.
RECURSIVE RestToolLoop(_, _, _, _)
RestToolLoop(ms, response, calls, outcome) ==
    IF calls = <<>> THEN [raised |-> FALSE, messages |-> ms]
    ELSE LET tc == Head(calls)
             result == ExecuteToolCall(tc, outcome)
             assistant_msg == Message(Len(ms) + 1, "assistant", response.content,
                                      response.tool_calls, None, "")
             tool_msg == Message(Len(ms) + 2, "tool", result.text, <<>>,
                                 Get(tc, "id", EmptyText), Get(tc, "name", ""))
         IN  IF result.raised THEN [raised |-> TRUE, messages |-> ms]
             ELSE RestToolLoop(ms \o <<assistant_msg, tool_msg>>, response,
                               Tail(calls), outcome)

\* chat(): the system and the user message, the first call returning
\* `response`, the tool loop and the follow-up call on the list it built.
\* Without tool calls, or when a tool call raises, no follow-up call is made.
RestChat(text, response, outcome) ==
    /\ ~is_enabled
    /\ LET system == Message(1, "system", Text("instruction"), <<>>, None, "")
           user == Message(2, "user", text, <<>>, None, "")
           looped == RestToolLoop(<<system, user>>, response, response.tool_calls,
                                  outcome)
       IN  /\ rest_request' = Request(text, response, outcome)
           /\ rest_sent' = IF response.tool_calls # <<>> /\ ~looped.raised
                           THEN looped.messages ELSE <<>>
    /\ UNCHANGED <<terminal_request, terminal_sent>>
    /\ UNCHANGED <<windowVars, toolVars, loopVars, memoryVars, commandVars,
                   clientVars, thinkingVars, runVars, parseVars, callerVars>>

\* AgentLoop() and _chat(text) up to its follow-up call: the window takes
\* the system message, the user message, the assistant message of
\* `response` and the tool messages of _process_tool_calls, and the
\* follow-up call is given memory.get_messages().
TerminalChat(text, response, outcome) ==
    /\ ~is_enabled
    /\ LET system == Message(1, "system", Text("instruction"), <<>>, None, "")
           user == Message(2, "user", text, <<>>, None, "")
           assistant_msg == Message(3, "assistant", response.content,
                                    response.tool_calls, None, "")
           outcomes == ToolOutcomes(response.tool_calls, outcome)
           tool_responses ==
               [i \in 1..Len(outcomes) |->
                   ToolMessage(3 + i, response.tool_calls[i], outcomes[i])]
           window == AddAll(<<>>, <<system, user, assistant_msg>> \o tool_responses,
                            DefaultMaxMessages, DefaultSlidingWindowSize)
       IN  /\ terminal_request' = Request(text, response, outcome)
           /\ terminal_sent' =
                  IF response.tool_calls # <<>> /\ ~outcomes[Len(outcomes)].raised
                  THEN window ELSE <<>>
    /\ UNCHANGED <<rest_request, rest_sent>>
    /\ UNCHANGED <<windowVars, toolVars, loopVars, memoryVars, commandVars,
                   clientVars, thinkingVars, runVars, parseVars, callerVars>>

RestNext ==
    \E text \in UserInputs, response \in RestResponses, outcome \in CallableOutcomes :
        \/ RestChat(text, response, outcome)
        \/ TerminalChat(text, response, outcome)

InitRest == WindowIdle /\ ToolIdle /\ MemoryIdle /\ LoopIdle /\ CommandIdle /\ ClientIdle
    /\ ThinkingInit /\ RunIdle /\ RestIdle /\ ParseIdle /\ CallerIdle

SpecRest == InitRest /\ [][RestNext]_vars

(***************************************************************************)
(* The adapters' parsers: GeminiClient._parse_response and                 *)
(* OllamaClient._parse_response, each given a provider response.           *)
(***************************************************************************)
\* The parts of a Gemini candidate: a text, or a function call with its
\* name and args.
GeminiParts ==
    {[text |-> Text("answer")]}
    \cup {[function_call |-> [name |-> n, args |-> a]] :
              n \in {"ls", "read_file"}, a \in {{}, {"path"}}}

\* The entries of message["tool_calls"] of an Ollama response: the id and
\* the function's name may be missing.
OllamaToolCalls ==
    {[id |-> i, function |-> [name |-> n, arguments |-> [kind |-> "dict", keys |-> {}]]] :
         i \in {Text("a"), Text("b")}, n \in {"ls"}}
    \cup {[function |-> [name |-> n, arguments |-> [kind |-> "dict", keys |-> {}]]] :
              n \in {"ls", "read_file"}}
    \cup {[function |-> [arguments |-> [kind |-> "dict", keys |-> {}]]]}

\* usage_metadata of a Gemini response, the eval counts of an Ollama one.
UsageMetadatas == {<<>>, <<1>>}

RECURSIVE GeminiContent(_)
GeminiContent(parts) ==
    IF parts = <<>> THEN EmptyText
    ELSE (IF "text" \in DOMAIN Head(parts) /\ Head(parts).text # EmptyText
          THEN Head(parts).text ELSE EmptyText) \o GeminiContent(Tail(parts))

\* The loop over candidate.content.parts: a function call becomes a tool
\* call whose id is "call_" and the function's name.
RECURSIVE GeminiToolCalls(_)
GeminiToolCalls(parts) ==
    IF parts = <<>> THEN <<>>
    ELSE LET part == parts[Len(parts)]
             before == GeminiToolCalls(SubSeq(parts, 1, Len(parts) - 1))
         IN  IF "text" \in DOMAIN part /\ part.text # EmptyText THEN before
             ELSE IF "function_call" \in DOMAIN part
                  THEN Append(before,
                              [id |-> <<"call_", part.function_call.name>>,
                               name |-> part.function_call.name,
                               arguments |-> [kind |-> "dict",
                                              keys |-> part.function_call.args]])
                  ELSE before

\* The loop over message["tool_calls"]: the id of the entry, or "call_"
\* and the function's name, "unknown" when it has none.
OllamaToolCall(tc) ==
    LET func == Get(tc, "function", [k \in {} |-> 0])
    IN  [id |-> Get(tc, "id", <<"call_", Get(func, "name", "unknown")>>),
         name |-> Get(func, "name", ""),
         arguments |-> Get(func, "arguments", EmptyDict)]

LLMResponse(content, tool_calls, usage) ==
    [content |-> content, tool_calls |-> tool_calls,
     finish_reason |-> IF tool_calls # <<>> THEN "tool_calls" ELSE "stop",
     usage |-> usage]

\* GeminiClient._parse_response
GeminiParseResponse(parts, um) ==
    /\ raw_response' = [client |-> "gemini", parts |-> parts, usage_metadata |-> um]
    /\ parsed' = LLMResponse(GeminiContent(parts), GeminiToolCalls(parts),
                             IF um # <<>> THEN [total_tokens |-> um[1]] ELSE NoUsage)
    /\ UNCHANGED <<windowVars, toolVars, loopVars, memoryVars, commandVars,
                   clientVars, thinkingVars, runVars, restVars, callerVars>>

\* OllamaClient._parse_response
OllamaParseResponse(content, tool_calls, counts) ==
    /\ raw_response' = [client |-> "ollama", content |-> content,
                        tool_calls |-> tool_calls, counts |-> counts]
    /\ parsed' = LLMResponse(content,
                             [i \in 1..Len(tool_calls) |-> OllamaToolCall(tool_calls[i])],
                             [total_tokens |-> IF counts # <<>> THEN counts[1] ELSE 0])
    /\ UNCHANGED <<windowVars, toolVars, loopVars, memoryVars, commandVars,
                   clientVars, thinkingVars, runVars, restVars, callerVars>>

ParseNext ==
    \/ \E parts \in SeqsUpTo(GeminiParts, MaxParts), um \in UsageMetadatas :
           GeminiParseResponse(parts, um)
    \/ \E content \in Contents, tool_calls \in SeqsUpTo(OllamaToolCalls, MaxParts - 1),
          counts \in UsageMetadatas :
           OllamaParseResponse(content, tool_calls, counts)

InitParse == WindowIdle /\ ToolIdle /\ MemoryIdle /\ LoopIdle /\ CommandIdle /\ ClientIdle
    /\ ThinkingInit /\ RunIdle /\ RestIdle /\ ParseIdle /\ CallerIdle

SpecParse == InitParse /\ [][ParseNext]_vars

(***************************************************************************)
(* The window and a caller of get_messages.  A Message is an object: the   *)
(* id of a message record stands for the object's identity, and a list     *)
(* holds references, so a change made to a message through one list shows  *)
(* in every list that holds the same object.                               *)
(***************************************************************************)
\* MemoryManager.get_messages: self.messages.copy(), a new list of the
\* same Message objects.
GetMessages ==
    /\ caller_list' = [held |-> TRUE, list |-> messages, edits |-> 0]
    /\ UNCHANGED <<windowVars, toolVars, loopVars, memoryVars, commandVars,
                   clientVars, thinkingVars, runVars, restVars, parseVars>>

CallerEdits == caller_list.held /\ caller_list.edits < MaxEdits

\* The caller's list after a change: list.append, del list[i],
\* list.reverse.  The window's list is another list object.
CallerList(list) ==
    /\ caller_list' = [held |-> TRUE, list |-> list, edits |-> caller_list.edits + 1]
    /\ UNCHANGED <<windowVars, toolVars, loopVars, memoryVars, commandVars,
                   clientVars, thinkingVars, runVars, restVars, parseVars>>

CallerAppends ==
    /\ CallerEdits
    /\ CallerList(Append(caller_list.list,
                         Message(0, "user", Text("mine"), <<>>, None, "")))

CallerRemoves(i) ==
    /\ CallerEdits
    /\ i \in DOMAIN caller_list.list
    /\ CallerList([k \in 1..(Len(caller_list.list) - 1) |->
                      IF k < i THEN caller_list.list[k] ELSE caller_list.list[k + 1]])

CallerReverses ==
    /\ CallerEdits
    /\ Len(caller_list.list) >= 2
    /\ CallerList([k \in 1..Len(caller_list.list) |->
                      caller_list.list[Len(caller_list.list) + 1 - k]])

\* The object `id` with its content set to `content`, in a list of
\* references.
WithContent(ms, id, content) ==
    [k \in 1..Len(ms) |-> IF ms[k].id = id THEN [ms[k] EXCEPT !.content = content]
                          ELSE ms[k]]

\* The caller sets the content of a message of its list:
\* returned[i].content = "changed".  The Message object is the one the
\* window holds, if the window still holds it.
CallerChangesMessage(i) ==
    /\ CallerEdits
    /\ i \in DOMAIN caller_list.list
    /\ caller_list.list[i].content # Text("changed")
    /\ LET id == caller_list.list[i].id
       IN  /\ caller_list' = [held |-> TRUE,
                              list |-> WithContent(caller_list.list, id, Text("changed")),
                              edits |-> caller_list.edits + 1]
           /\ messages' = WithContent(messages, id, Text("changed"))
    /\ UNCHANGED <<max_messages, sliding_window_size, total_tokens_used, nextId,
                   added, clearedAt>>
    /\ UNCHANGED <<toolVars, loopVars, memoryVars, commandVars, clientVars,
                   thinkingVars, runVars, restVars, parseVars>>

CallerNext ==
    \/ \E role \in {"system", "user"} : AddMessage(role)
    \/ Clear
    \/ GetMessages
    \/ CallerAppends
    \/ \E i \in 1..MaxMaxMessages : CallerRemoves(i)
    \/ CallerReverses
    \/ \E i \in 1..MaxMaxMessages : CallerChangesMessage(i)

\* The window of the largest sizes explored, and no list returned yet.
InitCaller == WindowInit /\ max_messages = MaxMaxMessages
    /\ sliding_window_size = MaxWindowSize /\ ToolIdle /\ MemoryIdle /\ LoopIdle /\ CommandIdle /\ ClientIdle
    /\ ThinkingInit /\ RunIdle /\ RestIdle /\ ParseIdle /\ CallerIdle

SpecCaller == InitCaller /\ [][CallerNext]_vars

(***************************************************************************)
(* Properties of the conversation window.                                  *)
(***************************************************************************)
NonSystem(ms) == SelectSeq(ms, NotSystem)
SinceClear == SubSeq(added, clearedAt + 1, Len(added))
InWindow(m) == \E j \in 1..Len(messages) : messages[j] = m
IsSuffix(s, t) ==
    /\ Len(s) <= Len(t)
    /\ s = SubSeq(t, Len(t) - Len(s) + 1, Len(t))

\* C1: after every add_message and clear call, whatever the roles of the
\* messages, the window holds at most max_messages messages.
C1_LengthWithinMax == Len(messages) <= max_messages

\* C2: every system-role message ever passed to add_message is still in the
\* window, after any later add_message calls (evicting or not) and clears.
C2_SystemMessagesKept ==
    \A i \in 1..Len(added) : IsSystem(added[i]) => InWindow(added[i])

\* C2 witness: a system message was added, then a clear happened, and after
\* the clear an eviction removed a non-system message.
C2_Witness ==
    /\ clearedAt > 0
    /\ \E i \in 1..clearedAt : IsSystem(added[i])
    /\ \E i \in (clearedAt + 1)..Len(added) :
           NotSystem(added[i]) /\ ~InWindow(added[i])

\* C3 (as claimed): once the system message and the 120 messages of the 60
\* pairs are added, the window is the system message followed by the last 20
\* non-system messages.
C3_LastTwentySurvive ==
    nextId > ScenarioMessages =>
        messages = <<added[1]>> \o SubSeq(added, Len(added) - 19, Len(added))

\* C3 (amended): once the system message and the 120 messages of the 60 pairs
\* are added, the window is the system message followed by the last 30
\* non-system messages: eviction runs only when the length passes 50, the last
\* time at the 110th non-system message, and 10 more are appended after it.
C3_LastThirtySurvive ==
    nextId > ScenarioMessages =>
        messages = <<added[1]>> \o SubSeq(added, Len(added) - 29, Len(added))

\* C3 witness: the scenario has run to its end and evictions have happened.
C3_Witness ==
    /\ nextId > ScenarioMessages
    /\ Len(added) = ScenarioMessages
    /\ Len(messages) < Len(added)

\* C4: the non-system messages in the window are, in the order they were
\* added, a suffix of the non-system messages added since the last clear.
C4_RetainedAreNewestInOrder ==
    IsSuffix(NonSystem(messages), NonSystem(SinceClear))

\* C4 witness: an eviction dropped a non-system message and kept at least two.
C4_Witness ==
    /\ Len(NonSystem(messages)) >= 2
    /\ Len(NonSystem(messages)) < Len(NonSystem(SinceClear))

(***************************************************************************)
(* Properties of the tool entry points.                                    *)
(***************************************************************************)
IsBlobCall ==
    /\ call.fn = "execute_tool_call"
    /\ "arguments" \in DOMAIN call.tool_call
    /\ call.tool_call.arguments.kind = "str"

\* C5: ToolRegistry.execute returns a text and never raises, for every name
\* and every set of keyword arguments; an unregistered name gives the 'not
\* found' text without any callable running, and an exception of the callable
\* becomes an error text that carries the tool name.
C5_ExecuteNeverRaises ==
    call.fn = "execute" =>
        \A i \in 1..Len(results) :
            /\ ~results[i].raised
            /\ call.name \notin DOMAIN Tools =>
                   /\ results[i].text = <<"Error: Tool '", call.name, "' not found.">>
                   /\ results[i].invoked = <<>>
            /\ call.name \in DOMAIN Tools =>
                   \/ results[i].text = <<"output of ", call.name>>
                   \/ \E exc \in {"TypeError", "Exception"} :
                          results[i].text = <<"Error executing '", call.name, "': ", exc>>

\* C6: execute_tool_call on a record whose arguments blob is not valid JSON
\* returns the JSON-decode error text, raises nothing and runs no tool
\* callable; a repeated call on the same blob returns the same text.
C6_InvalidBlobGivesErrorText ==
    (IsBlobCall /\ ~JsonLoads(call.tool_call.arguments.text).ok) =>
        \A i \in 1..Len(results) :
            /\ ~results[i].raised
            /\ results[i].invoked = <<>>
            /\ results[i].text = <<"Error: Invalid JSON arguments for tool '",
                                   Get(call.tool_call, "name", ""), "'">>
            /\ results[i].text = results[1].text

\* C6 witness: a blob with unbalanced brackets has been executed twice.
C6_Witness ==
    /\ IsBlobCall
    /\ call.tool_call.arguments.text = <<"{", "\"path\"", ":", "1">>
    /\ Len(results) = 2

\* C7: execute_tool_call returns a text and never raises, for arguments given
\* as a mapping with any keys or as a blob that decodes to any JSON value.
C7_ExecuteToolCallNeverRaises ==
    (/\ call.fn = "execute_tool_call"
     /\ IsBlobCall => JsonLoads(call.tool_call.arguments.text).ok) =>
        \A i \in 1..Len(results) : ~results[i].raised

(***************************************************************************)
(* Properties of the agent loop.                                           *)
(***************************************************************************)
TurnOver == pc = "Idle" /\ turn.n >= 1

\* C8: in a turn where the first or the follow-up model call raises,
\* extract_and_store is not called.
C8_NoExtractionInFailedTurn ==
    (TurnOver /\ turn.raised \in {"first", "followup"}) => extract_calls = <<>>

\* C9: when the first model call of a turn raises, _chat returns without
\* raising, with the window as it was right after the user message was
\* appended (that message still its last one), the token counter unchanged
\* and no tool executed.
C9_FailedFirstCallChangesNothing ==
    step = "FirstCallRaises" =>
        /\ pc = "Idle"
        /\ ~chat_raised
        /\ messages = turn.after_user
        /\ messages # <<>>
        /\ messages[Len(messages)].role = "user"
        /\ messages[Len(messages)].content = user_input
        /\ total_tokens_used = turn.tokens_before
        /\ tool_runs = <<>>

\* C9 witness: the first call of a second turn has raised, with the messages
\* of the turn before in the window; the extraction ran in the finally block.
C9_Witness ==
    /\ step = "FirstCallRaises"
    /\ turn.n = 2
    /\ \E j \in 1..Len(messages) : IsAssistant(messages[j])
    /\ extract_calls # <<>>

\* C10: in a turn where no model call raises, with auto-extraction on and
\* the memory service enabled, extract_and_store is called exactly once,
\* with the turn's user input and the final assistant content of that turn,
\* empty or not.
C10_ExtractionOnceWithFinalContent ==
    (/\ TurnOver
     /\ turn.raised = "none"
     /\ turn.final # <<>>
     /\ memory_auto_extract
     /\ is_enabled) =>
        extract_calls = <<[user_input |-> user_input,
                           assistant_response |-> turn.final[1]]>>

\* The position in `added` of the user message of the latest turn, and the
\* messages added after it.
UserAt ==
    CHOOSE i \in 0..Len(added) :
        /\ i > 0 => added[i].role = "user"
        /\ \A j \in (i + 1)..Len(added) : added[j].role # "user"
AfterUser == SubSeq(added, UserAt + 1, Len(added))
ChatReturned ==
    /\ pc = "Idle"
    /\ step \in {"FirstCallRaises", "FirstCallReturns", "FollowupRaises",
                 "FollowupReturns"}
IsFinal(m) == m.role = "assistant" /\ m.tool_calls = <<>>

\* C11: a turn in which no model call raises appends exactly one final
\* assistant message, which is the last message of the window and carries
\* the final content (of the first response when it has no tool calls, of
\* the follow-up otherwise), empty or not.
C11_FinalMessageAppended ==
    (ChatReturned /\ turn.raised \notin {"first", "followup"}) =>
        /\ turn.final # <<>>
        /\ Len(SelectSeq(AfterUser, IsFinal)) = 1
        /\ IsFinal(messages[Len(messages)])
        /\ messages[Len(messages)] = added[Len(added)]
        /\ messages[Len(messages)].content = turn.final[1]

\* The tool calls carried by the first response of the latest turn, read off
\* the assistant message appended for them.
FirstResponseCalls ==
    IF AfterUser # <<>> /\ AfterUser[1].role = "assistant"
    THEN AfterUser[1].tool_calls ELSE <<>>

\* C12: when the first response of a turn carries tool calls c1..cN, then by
\* the time _chat has moved on from that response the messages appended after
\* the user message are one assistant message carrying [c1..cN] followed by
\* one tool message per call, in call order, holding the result, the id and
\* the name of its call; the calls ran one at a time in that order, all of
\* them before the follow-up model call.
C12_ToolMessagesInCallOrder ==
    (step = "FirstCallReturns" /\ FirstResponseCalls # <<>>) =>
        LET calls == FirstResponseCalls
        IN  /\ Len(AfterUser) = 1 + Len(calls)
            /\ \A i \in 1..Len(calls) :
                   /\ Len(AfterUser) >= 1 + i
                   /\ AfterUser[1 + i].role = "tool"
                   /\ AfterUser[1 + i].tool_call_id = calls[i].id
                   /\ AfterUser[1 + i].name = calls[i].name
                   /\ \E outcome \in CallableOutcomes :
                          AfterUser[1 + i].content =
                              ExecuteToolCall(calls[i], outcome).text
            /\ Len(tool_runs) = Len(calls)
            /\ \A i \in 1..Len(calls) :
                   i <= Len(tool_runs) => tool_runs[i].id = calls[i].id
            /\ pc = "AwaitingFollowupResponse"

\* C13: in any turn the model adapter is called at most twice and, once the
\* first response is handled, each tool call of the first response has been
\* executed exactly once, in order; tool calls carried by the follow-up
\* response are not executed and no third model call is made.
C13_TwoModelCallsToolsOnce ==
    turn.n >= 1 =>
        /\ turn.model_calls <= 2
        /\ pc # "AwaitingModelResponse" =>
               /\ Len(tool_runs) = Len(FirstResponseCalls)
               /\ \A i \in 1..Len(tool_runs) :
                      i <= Len(FirstResponseCalls) =>
                          tool_runs[i].id = FirstResponseCalls[i].id

\* C16: every tool-role message in the window has the tool_call_id of a tool
\* call carried by an assistant message that was added to the session before
\* it, whether or not that assistant message is still in the window.
C16_ToolMessageAnswersEarlierCall ==
    \A j \in 1..Len(messages) :
        messages[j].role = "tool" =>
            \E p \in 1..Len(added) :
                /\ added[p] = messages[j]
                /\ \E i \in 1..(p - 1) :
                       /\ added[i].role = "assistant"
                       /\ \E k \in 1..Len(added[i].tool_calls) :
                              added[i].tool_calls[k].id = messages[j].tool_call_id

\* C16 witness: two tool messages are in the window while the assistant
\* message that carried their calls has been evicted from it.
C16_Witness ==
    /\ \E j \in 1..Len(messages) : messages[j].role = "tool"
    /\ Len(SelectSeq(messages, LAMBDA m : m.role = "tool")) = 2
    /\ \A j \in 1..Len(messages) : messages[j].tool_calls = <<>>

(***************************************************************************)
(* Properties of the memory service.                                       *)
(***************************************************************************)
\* What a store call yielded to the service: nothing when it raised.
Yield(c) == IF c.raised THEN <<>> ELSE c.returned
Rendering(items) == JoinLines([i \in 1..Len(items) |-> MemoryLine(FromMem0(items[i]))])

\* C17: get_memory_context on an enabled service searches first; when the
\* search yields memories get_all is not consulted; when it yields none, by an
\* empty result or by a failure of the store, the result is the first
\* max_memories memories of get_all rendered one per line, and the empty text
\* when get_all yields none either.
C17_ContextFallsBackToGetAll ==
    (svc.fn = "get_memory_context" /\ IsEnabled) =>
        /\ Len(backend_calls) >= 1
        /\ backend_calls[1].op = "search"
        /\ IF Yield(backend_calls[1]) # <<>>
           THEN Len(backend_calls) = 1
           ELSE /\ Len(backend_calls) = 2
                /\ backend_calls[2].op = "get_all"
                /\ LET all == Yield(backend_calls[2])
                       recent == SubSeq(all, 1, Min(svc.max_memories, Len(all)))
                   IN  svc_result.value =
                           IF recent = <<>> THEN EmptyText ELSE Rendering(recent)

\* C17 witness: the search failed, get_all yielded two memories and the
\* context holds the first of them only, max_memories being 1.
C17_Witness ==
    /\ svc.fn = "get_memory_context"
    /\ IsEnabled
    /\ svc.max_memories = 1
    /\ Len(backend_calls) = 2
    /\ backend_calls[1].raised
    /\ Len(Yield(backend_calls[2])) = 2
    /\ svc_result.value = MemoryLine(FromMem0(store[1]))

\* C18: while is_enabled is false, for want of a client or because
\* memory_enabled is false, search and get_all return an empty list,
\* get_memory_context returns the empty text, add, add_text,
\* extract_and_store, delete and delete_all return false, and none of them
\* calls the store.
C18_DisabledServiceDoesNothing ==
    (~IsEnabled /\ svc.fn # "none") =>
        /\ backend_calls = <<>>
        /\ ~svc_result.raised
        /\ CASE svc.fn \in {"search", "get_all"} -> svc_result.value = <<>>
             [] svc.fn = "get_memory_context" -> svc_result.value = EmptyText
             [] OTHER -> svc_result.value = FALSE

\* C18 witness: delete_all was called on a service that has a client, with
\* memory_enabled false, over a store that holds memories.
C18_Witness ==
    /\ has_client
    /\ ~memory_enabled
    /\ svc.fn = "delete_all"
    /\ store # <<>>

\* C19, the service: when a store call raises, search and get_all return an
\* empty list, add, add_text, delete, delete_all and extract_and_store return
\* false, get_memory_context returns a text (the empty one when its last
\* store call raised), and the exception does not leave the method.
C19_ServiceContainsFailure ==
    (svc.fn # "none" /\ \E k \in 1..Len(backend_calls) : backend_calls[k].raised) =>
        /\ ~svc_result.raised
        /\ CASE svc.fn \in {"search", "get_all"} -> svc_result.value = <<>>
             [] svc.fn = "get_memory_context" ->
                    /\ \A i \in 1..Len(svc_result.value) : svc_result.value[i] \in STRING
                    /\ backend_calls[Len(backend_calls)].raised =>
                           svc_result.value = EmptyText
             [] OTHER -> svc_result.value = FALSE

\* C19, the turn: a chat turn whose extract_and_store call fails returns
\* without raising, with the window as it was when the call was made.
C19_FailedExtractionLeavesTurn ==
    (/\ ChatReturned
     /\ extract_results # <<>>
     /\ extract_results[1].value = FALSE) =>
        /\ ~chat_raised
        /\ ~extract_results[1].raised
        /\ messages = extract_results[1].window

C19_TurnWitness ==
    /\ ChatReturned
    /\ extract_results # <<>>
    /\ extract_results[1].value = FALSE
    /\ turn.raised = "none"

(***************************************************************************)
(* Properties of the command dispatcher.                                   *)
(***************************************************************************)
\* The words of a text, in lower case.
RECURSIVE Words(_)
Words(s) ==
    LET parts == SplitOnce(s)
    IN  IF parts = <<>> THEN <<>>
        ELSE IF Len(parts) = 1 THEN <<Lower(parts[1])>>
        ELSE <<Lower(parts[1])>> \o Words(parts[2])
IsForgetAll(text) == Words(text) = <<<<"/">> \o ForgetName, AllArg>>
IsForgetAllConfirm(text) == Words(text) = <<<<"/">> \o ForgetName, AllArg, ConfirmWord>>
Calls(fn) == \E k \in 1..Len(service_calls) : service_calls[k].fn = fn
StoreCalled(op) == \E k \in 1..Len(backend_calls) : backend_calls[k].op = op

\* C20 (as claimed): over any sequence of commands delete_all is called only
\* while a '/forget all confirm' command is handled, and '/forget all' alone
\* renders the confirmation prompt and calls neither delete nor delete_all.
C20_ForgetAllPromptsAlways ==
    /\ (Calls("delete_all") \/ StoreCalled("delete_all")) => IsForgetAllConfirm(command)
    /\ IsForgetAll(command) =>
           /\ rendered = <<ConfirmPrompt>>
           /\ ~Calls("delete") /\ ~Calls("delete_all")

\* C20 (amended): over any sequence of commands delete_all is called only
\* while a '/forget all confirm' command is handled; '/forget all' alone calls
\* neither delete nor delete_all, and renders the confirmation prompt when the
\* memory service is enabled and the 'not enabled' error when it is not.
C20_DeleteAllOnlyOnConfirm ==
    /\ (Calls("delete_all") \/ StoreCalled("delete_all")) => IsForgetAllConfirm(command)
    /\ IsForgetAll(command) =>
           /\ rendered = <<IF IsEnabled THEN ConfirmPrompt ELSE NotEnabledError>>
           /\ ~Calls("delete") /\ ~Calls("delete_all")
           /\ backend_calls = <<>>

\* C20 witness: a '/forget all confirm' written with capitals has emptied a
\* store that held memories.
C20_Witness ==
    /\ IsForgetAllConfirm(command)
    /\ command # <<"/">> \o ForgetName \o <<" ">> \o AllConfirmArg
    /\ Calls("delete_all")
    /\ StoreCalled("get_all") = FALSE
    /\ store = <<>>
    /\ \E k \in 1..Len(backend_calls) : ~backend_calls[k].raised

(***************************************************************************)
(* Properties of the thinking indicator and of the model adapters.         *)
(***************************************************************************)
\* C14: whenever _chat moves on from a model call, the indicator tasks
\* started for that call have finished: at most one indicator task is
\* unfinished at any time, it is the one held in thinking_task, so none is
\* still running when the next one is started; and none is unfinished once
\* _chat has returned.
C14_IndicatorTasksFinished ==
    /\ Cardinality(Running) <= 1
    /\ Running \subseteq {thinking_task}
    /\ chat_at = "Idle" => Running = {}

\* C14 witness: the follow-up call is awaited with its indicator task
\* asleep, while the task of the first call has finished by itself, having
\* found is_thinking false after its sleep.
C14_Witness ==
    /\ chat_at = "AwaitFollowup"
    /\ Len(tasks) >= 2
    /\ tasks[thinking_task].state = "sleeping"
    /\ Done(thinking_task - 1)
    /\ ~tasks[thinking_task - 1].must_cancel

SystemMessages == SelectSeq(chat_messages, IsSystem)

\* C15: for a message list with several system-role messages an adapter uses
\* the content of the last of them as the system instruction, and with none
\* the system instruction of the client.
C15_LastSystemMessageUsed ==
    sent.client # "none" =>
        /\ Len(SystemMessages) >= 2 =>
               sent.system = <<SystemMessages[Len(SystemMessages)].content>>
        /\ SystemMessages = <<>> =>
               sent.system = <<SystemInstruction(own_instruction)>>

\* The eviction C29 describes: the system messages of the list in order, then
\* the last min(n, k) of its k non-system messages.
SystemThenNewest(ms, n) ==
    LET non_system == NonSystem(ms)
        k == Len(non_system)
    IN  SelectSeq(ms, IsSystem) \o SubSeq(non_system, k - Min(n, k) + 1, k)

\* C29: whenever add_message triggers eviction, the window becomes the
\* system messages in their order followed by exactly the last
\* min(sliding_window_size, k) of the k non-system messages, for every
\* sliding_window_size >= 0; with sliding_window_size = 0 no non-system
\* message survives.
C29_EvictionKeepsLastWindow ==
    [][(added' # added /\ Len(messages) + 1 > max_messages) =>
           messages' = SystemThenNewest(Append(messages, added'[Len(added')]),
                                        sliding_window_size)]_vars

(***************************************************************************)
(* Properties of the dispatcher and of the run loop.                       *)
(***************************************************************************)
\* C21: execute never raises for an input is_command accepts, a bare command
\* marker and a known command with a failing handler included: the input is
\* reported as handled.
C21_ExecuteHandlesEveryCommand == IsCommand(command) => handled = "handled"

Before == last_input.before

\* C22: a command invoked twice in succession, rendering the same both
\* times, leaves the window, the token counter and the configuration as the
\* first invocation left them.
C22_CommandsIdempotent ==
    (last_input.kind = "command" /\ last_input.repeated /\ handled = "handled") =>
        /\ messages = Before.messages
        /\ total_tokens_used = Before.tokens
        /\ config = Before.config

\* The command token of a line and the text after it, read off the line
\* character by character.
RECURSIVE UpToSpace(_)
UpToSpace(s) ==
    IF s = <<>> \/ Head(s) = " " THEN <<>> ELSE <<Head(s)>> \o UpToSpace(Tail(s))
RECURSIVE SkipSpaces(_)
SkipSpaces(s) == IF s # <<>> /\ Head(s) = " " THEN SkipSpaces(Tail(s)) ELSE s
TokenOf(line) == UpToSpace(SkipSpaces(Tail(line)))
ArgumentOf(line) ==
    LET after_marker == SkipSpaces(Tail(line))
    IN  SkipSpaces(SubSeq(after_marker, Len(TokenOf(line)) + 1, Len(after_marker)))

\* C23: an input whose command token is not a registered command renders the
\* 'Unknown command' error, is reported as handled, makes no model call and
\* leaves window, token counter, configuration, client and memory store as
\* they were.
C23_UnknownCommandChangesNothing ==
    (/\ last_input.kind = "command"
     /\ TokenOf(last_input.text) # <<>>
     /\ Lower(TokenOf(last_input.text)) \notin Commands) =>
        /\ rendered = <<Rendered("error", "Unknown command")>>
        /\ handled = "handled"
        /\ run_rendered = <<>>
        /\ messages = Before.messages
        /\ total_tokens_used = Before.tokens
        /\ config = Before.config
        /\ client = Before.client
        /\ store = Before.store
        /\ model_calls = Before.model_calls
        /\ pc = "Idle"

\* C23 witness: an unknown command came after a turn that used tokens and
\* after the adapter was replaced.
C23_Witness ==
    /\ last_input.kind = "command"
    /\ last_input.text = <<"/", "n", "o">>
    /\ total_tokens_used > 0
    /\ client.id > 1
    /\ Len(messages) > 1

\* C24: for an input starting with the command marker the run loop makes no
\* model call and appends no user or assistant message; the token is matched
\* whatever its case and the rest of the line reaches the handler as one
\* argument string.
C24_CommandsBypassTheModel ==
    last_input.kind = "command" =>
        /\ model_calls = Before.model_calls
        /\ pc = "Idle"
        /\ \A i \in (Before.added + 1)..Len(added) :
               added[i].role \notin {"user", "assistant"}
        /\ Lower(TokenOf(last_input.text)) \in Commands =>
               /\ dispatched # NoDispatch
               /\ dispatched.name = Lower(TokenOf(last_input.text))
               /\ dispatched.args = ArgumentOf(last_input.text)

\* C24 witness: after a turn, a command typed in capitals with an argument
\* of two words was dispatched.
C24_Witness ==
    /\ last_input.kind = "command"
    /\ last_input.text = <<"/", "C", "O", "N", "F", "I", "G", " ", "a", " ", " ", "b">>
    /\ dispatched = [name |-> ConfigName, args |-> <<"a", " ", " ", "b">>]
    /\ Len(messages) > 2

\* C25: an exception raised while an input is handled is rendered as an
\* error and the loop waits for the next input with running still true; the
\* loop ends only through /quit, /exit or a user interrupt.
C25_ExceptionsReturnToPrompt ==
    /\ (last_input.kind \in {"command", "chat"} /\ last_input.raised) =>
           /\ run_at = "Prompt"
           /\ running
           /\ run_rendered = <<UnexpectedError>>
    /\ (last_input.kind = "chat" /\ pc = "Idle" /\ turn.raised # "none") =>
           run_at = "Prompt" /\ running
    /\ run_at = "Ended" =>
           \/ last_input.kind = "interrupt confirmed"
           \/ /\ last_input.kind = "command"
              /\ dispatched # NoDispatch
              /\ dispatched.name \in {QuitName, ExitName}

\* C25 witness: after a turn, a registered command's handler raised.
C25_Witness ==
    /\ last_input.kind = "command"
    /\ last_input.raised
    /\ dispatched # NoDispatch
    /\ Len(messages) > 2

\* C26: a user interrupt while the loop waits for input is taken as a
\* request to exit: the loop goes to its confirmation step.
C26_PromptInterruptAsksConfirmation ==
    last_input.kind = "interrupt at prompt" => run_at = "Confirming"

\* C27: with the memory service enabled, before every model call of a turn
\* get_memory_context is called with the turn's text as query.
C27_ContextFetchedBeforeEveryCall ==
    (is_enabled /\ last_input.kind = "chat") =>
        \A i \in DOMAIN model_calls :
            /\ model_calls[i].context_calls >
                   (IF i = 1 THEN Before.context_calls
                    ELSE model_calls[i - 1].context_calls)
            /\ context_log[model_calls[i].context_calls] = user_input

\* C28: the model calls of one turn are made on the same adapter instance
\* under the same provider and model, and while _chat is under way
\* agent.client and the configuration stay those of its first call.
C28_OneAdapterPerTurn ==
    /\ \A i \in DOMAIN model_calls : model_calls[i].client = model_calls[1].client
    /\ \A i \in DOMAIN model_calls :
           /\ model_calls[i].provider = model_calls[1].provider
           /\ model_calls[i].model = model_calls[1].model
    /\ pc # "Idle" =>
           /\ client = model_calls[1].client
           /\ config.default_provider = model_calls[1].provider
           /\ CurrentModel(config) = model_calls[1].model

\* C28 witness: a turn made its two model calls after a command had
\* replaced the adapter.
C28_Witness ==
    /\ Len(model_calls) = 2
    /\ model_calls[1].client.id > 1
    /\ pc = "Idle"

(***************************************************************************)
(* Properties of the REST chat handler.                                    *)
(***************************************************************************)
\* A message as the model adapter reads it.
Shape(m) ==
    [role |-> m.role, content |-> m.content, tool_calls |-> m.tool_calls,
     tool_call_id |-> m.tool_call_id, name |-> m.name]
Shapes(ms) == [i \in 1..Len(ms) |-> Shape(ms[i])]
\* The messages of a list after its first two, the system and the user
\* message.
PastUser(ms) == SubSeq(ms, 3, Len(ms))

\* C30: given the same text, response and tool outcomes, the REST handler
\* hands its follow-up call the same messages after the user message as the
\* terminal loop does: one assistant message with all the tool calls, then
\* one tool message per call.
C30_RestFollowupAsTerminal ==
    (rest_request # NoRequest /\ rest_request = terminal_request) =>
        Shapes(PastUser(rest_sent)) = Shapes(PastUser(terminal_sent))

(***************************************************************************)
(* Properties of the message lists a turn hands to the model adapter.      *)
(***************************************************************************)
\* _chat stands in self.client.chat(self.memory.get_messages(), ...): the
\* list the adapter was given is the window.
AtModelCall == pc \in {"AwaitingModelResponse", "AwaitingFollowupResponse"}

\* Tool message ms[i] answers a call of an assistant message before it.
Answered(ms, i) ==
    \E j \in 1..(i - 1) :
        /\ ms[j].role = "assistant"
        /\ \E k \in DOMAIN ms[j].tool_calls :
               Get(ms[j].tool_calls[k], "id",
                   <<"call_", Get(ms[j].tool_calls[k], "name", "")>>)
                   = ms[i].tool_call_id

\* C31: in every message list given to the model adapter each tool message
\* comes after an assistant message whose tool calls include its
\* tool_call_id, also when the window evicts while the messages of the turn
\* are appended.
C31_ToolMessagesFollowTheirCall ==
    AtModelCall =>
        \A i \in DOMAIN messages :
            messages[i].role = "tool" => Answered(messages, i)

\* C32: with sliding_window_size >= 1, the message list given to each model
\* call of a turn holds the turn's user message.
C32_UserMessageAtEveryCall ==
    (AtModelCall /\ sliding_window_size >= 1) =>
        \E i \in DOMAIN messages :
            /\ messages[i].role = "user"
            /\ messages[i].content = user_input
            /\ messages[i] = added[UserAt]

(***************************************************************************)
(* Properties of the adapters' parsers.                                    *)
(***************************************************************************)
\* C33: within one parsed provider response distinct tool calls carry
\* distinct ids, two calls of the same tool in one Gemini response included.
C33_ToolCallIdsDistinct ==
    \A i, j \in DOMAIN parsed.tool_calls :
        i # j => parsed.tool_calls[i].id # parsed.tool_calls[j].id

(***************************************************************************)
(* Properties of the list get_messages returns.                            *)
(***************************************************************************)
\* C34: no change the caller makes to the list get_messages returned, or
\* to a message of it, changes what the window holds.
C34_ReturnedListIndependent ==
    [][caller_list' # caller_list => messages' = messages]_vars

(***************************************************************************)
(* Properties of clear.                                                    *)
(***************************************************************************)
Cleared ==
    /\ last_input.kind = "command"
    /\ dispatched # NoDispatch
    /\ dispatched.name = ClearName
    /\ handled = "handled"

\* C35: clear leaves exactly the system messages of the window, in their
\* order, and a token counter of 0; a second clear changes nothing.
C35_ClearKeepsSystemMessages ==
    Cleared =>
        /\ messages = SelectSeq(Before.messages, IsSystem)
        /\ total_tokens_used = 0
        /\ ClearedMessages(messages) = messages
        /\ last_input.repeated =>
               messages = Before.messages /\ total_tokens_used = Before.tokens

\* C35 witness: the window cleared held two system messages and others,
\* and the counter was above 0.
C35_Witness ==
    /\ Cleared
    /\ Before.tokens > 0
    /\ Len(messages) >= 2
    /\ Len(Before.messages) > Len(messages)

(***************************************************************************)
(* Properties of '/forget <prefix>'.                                       *)
(***************************************************************************)
\* The id prefix a '/forget' argument gives: the text inside the angle
\* brackets of the usage line, if the user typed them.
ForgetPrefix(args) == StripChars(Strip(args), {"<", ">"})
IsDelete(c) == c.fn = "delete"
FirstMatch(st, prefix) ==
    CHOOSE k \in DOMAIN st :
        /\ StartsWith(st[k].id, prefix)
        /\ \A j \in 1..(k - 1) : ~StartsWith(st[j].id, prefix)

\* C36: '/forget <prefix>', the prefix not being 'all' or 'all confirm',
\* calls delete at most once, on the first memory in get_all order whose id
\* starts with the prefix, and never delete_all; nothing is deleted when no
\* id matches, when no prefix is given or when the service is disabled.
C36_ForgetDeletesFirstMatch ==
    [][(/\ dispatched' # NoDispatch
        /\ dispatched'.name = ForgetName
        /\ Lower(Strip(dispatched'.args)) \notin {AllArg, AllConfirmArg}) =>
           LET prefix == ForgetPrefix(dispatched'.args)
               matches == \E k \in DOMAIN store : StartsWith(store[k].id, prefix)
               deletes == SelectSeq(service_calls', IsDelete)
           IN  /\ Len(deletes) <= 1
               /\ \A k \in DOMAIN service_calls' : service_calls'[k].fn # "delete_all"
               /\ \A k \in DOMAIN backend_calls' : backend_calls'[k].op # "delete_all"
               /\ deletes # <<>> =>
                      /\ prefix # <<>>
                      /\ matches
                      /\ deletes[1].arg = store[FirstMatch(store, prefix)].id
               /\ (~matches \/ prefix = <<>> \/ ~IsEnabled) =>
                      /\ store' = store
                      /\ \A k \in DOMAIN backend_calls' : backend_calls'[k].op # "delete"
      ]_vars

(***************************************************************************)
(* Properties of '/quit' and '/exit'.                                      *)
(***************************************************************************)
QuitHandled ==
    /\ last_input.kind = "command"
    /\ dispatched # NoDispatch
    /\ dispatched.name \in {QuitName, ExitName}
    /\ handled = "handled"

\* C37: once '/quit' or '/exit' is handled running is false and the run
\* loop has ended, no model call was made and the window is as it was; the
\* ended loop reads no further input.
C37_QuitEndsTheLoop ==
    /\ [](QuitHandled =>
              /\ ~running
              /\ run_at = "Ended"
              /\ model_calls = Before.model_calls
              /\ pc = "Idle"
              /\ messages = Before.messages
              /\ total_tokens_used = Before.tokens)
    /\ [][run_at # "Ended"]_vars

\* C37 witness: '/exit' ended a loop that had made a turn.
C37_Witness ==
    /\ QuitHandled
    /\ dispatched.name = ExitName
    /\ Len(messages) > 2
    /\ total_tokens_used > 0

(***************************************************************************)
(* Properties of '/model' and '/config'.                                   *)
(***************************************************************************)
\* The adapter is the one of the configuration.
ClientOf(cfg, c) ==
    c.provider = cfg.default_provider /\ c.model_name = CurrentModel(cfg)

\* C38: after any sequence of commands the active client's provider and
\* model name are config.default_provider and config.current_model, and
\* '/config provider=' with a value that names no provider leaves the
\* configuration and the client as they were.
C38_ClientFollowsConfig ==
    /\ ClientOf(config, client)
    /\ (/\ last_input.kind = "command"
        /\ dispatched # NoDispatch
        /\ dispatched.name = ConfigName
        /\ Len(SplitEq(dispatched.args)) = 2
        /\ Strip(SplitEq(dispatched.args)[1]) = ProviderKey
        /\ ProviderOf(Strip(SplitEq(dispatched.args)[2])) = <<>>) =>
           config = Before.config /\ client = Before.client

(***************************************************************************)
(* Properties of the token counter.                                        *)
(***************************************************************************)
\* total_tokens of the first response of the turn, 0 while there is none.
FirstTotal ==
    IF turn.first_usage = <<>> THEN 0
    ELSE Get(turn.first_usage[1], "total_tokens", 0)

\* C39: a turn raises total_tokens_used by the total_tokens of its first
\* response and by nothing else, a follow-up response and a failed first
\* call add nothing, and the counter is the sum of the first responses'
\* total_tokens over the turns since the last clear.
C39_FirstResponseTokensCounted ==
    /\ total_tokens_used = turn.since_clear
    /\ (turn.n > 0 /\ step \notin {"CmdInit", "CmdClear"}) =>
           total_tokens_used = turn.tokens_before + FirstTotal
    /\ (turn.n > 0 /\ turn.raised = "first") => turn.first_usage = <<>>

\* C39 witness: after a clear, a turn whose first response carried usage
\* made its follow-up call and returned, a counted turn before the clear.
C39_Witness ==
    /\ step = "FollowupReturns"
    /\ turn.first_usage = <<[total_tokens |-> 1]>>
    /\ clearedAt > 0
    /\ turn.n >= 2
    /\ total_tokens_used = 1

====
